---- MODULE Spec2Model ----
(***************************************************************************)
(* A model of the classification and aggregation core of                  *)
(* hexo-alist-movie-plugin: the file name parsers (ContentDetector,       *)
(* PathAnalyzer), the walker of SmartDetector, its season merge, and the   *)
(* enrichment / split / aggregation steps of generateSmartMovieData.       *)
(*                                                                         *)
(* Strings are sequences of characters, a character being a one-token     *)
(* TLA+ string; the regular expressions of the source are patterns run by  *)
(* a small backtracking matcher (leftmost match, greedy quantifiers), so   *)
(* that parsing is computed and not assumed.  JavaScript objects are       *)
(* records whose DOMAIN is the set of fields the object has.               *)
(***************************************************************************)
EXTENDS Integers, Sequences, FiniteSets, TLC

\* `const x = v` followed by F(x): v is evaluated once, F sees its value
Bind(v, F(_)) == CHOOSE r \in {F(x) : x \in {v}} : TRUE

(***************************************************************************)
(* Characters                                                              *)
(***************************************************************************)
UpperSeq == <<"A","B","C","D","E","F","G","H","I","J","K","L","M",
              "N","O","P","Q","R","S","T","U","V","W","X","Y","Z">>
LowerSeq == <<"a","b","c","d","e","f","g","h","i","j","k","l","m",
              "n","o","p","q","r","s","t","u","v","w","x","y","z">>
DigitSeq == <<"0","1","2","3","4","5","6","7","8","9">>

Upper == {UpperSeq[i] : i \in 1..26}
Lower == {LowerSeq[i] : i \in 1..26}
Digit == {DigitSeq[i] : i \in 1..10}

\* CJK characters used by the patterns, as tokens: 第 季 集
ChDi  == "U+7B2C"
ChJi  == "U+5B63"
ChJie == "U+96C6"
\* the full-width parentheses （ ）
ChFwL == "U+FF08"
ChFwR == "U+FF09"
\* 全 语 字 中 英 日 韩
ChQuan == "U+5168"
ChYu   == "U+8BED"
ChZi   == "U+5B57"
ChZhong == "U+4E2D"
ChYing == "U+82F1"
ChRi   == "U+65E5"
ChHan  == "U+97E9"
\* 电 影 动 漫 视 频 下 载 完 成 合 片 剧
ChDian == "U+7535"
ChYingPic == "U+5F71"
ChDong == "U+52A8"
ChMan  == "U+6F2B"
ChShi  == "U+89C6"
ChPin  == "U+9891"
ChXia  == "U+4E0B"
ChZai  == "U+8F7D"
ChWan  == "U+5B8C"
ChCheng == "U+6210"
ChHe   == "U+5408"
ChPian == "U+7247"
ChJu   == "U+5267"
CJK == {ChDi, ChJi, ChJie, ChQuan, ChYu, ChZi, ChZhong, ChYing, ChRi, ChHan,
        ChDian, ChYingPic, ChDong, ChMan, ChShi, ChPin, ChXia, ChZai, ChWan,
        ChCheng, ChHe, ChPian, ChJu}

Space == {" "}
Punct == {".", "-", "_", "(", ")", "[", "]", "/", ChFwL, ChFwR}
Chars == Upper \cup Lower \cup Digit \cup CJK \cup Space \cup Punct

ToLower(c) ==
  IF c \in Upper THEN LowerSeq[CHOOSE i \in 1..26 : UpperSeq[i] = c] ELSE c
ToUpper(c) ==
  IF c \in Lower THEN UpperSeq[CHOOSE i \in 1..26 : LowerSeq[i] = c] ELSE c

MinLen(a, b) == IF Len(a) < Len(b) THEN Len(a) ELSE Len(b)

\* the characters in the order of their UTF-16 code units
CodeOrder ==
  <<" ", "(", ")", "-", ".", "/">> \o DigitSeq \o UpperSeq
    \o <<"[", "]", "_">> \o LowerSeq
    \o <<ChXia, ChZhong, ChQuan, ChJu, ChDong, ChHe, ChZi, ChJi, ChWan,
         ChYingPic, ChCheng, ChRi, ChMan, ChPian, ChDian, ChDi, ChYing,
         ChShi, ChYu, ChZai, ChJie, ChHan, ChPin, ChFwL, ChFwR>>
CharCode(c) == CHOOSE i \in 1..Len(CodeOrder) : CodeOrder[i] = c

\* a < b on strings: the comparison of JavaScript, code unit by code unit
StrLess(a, b) ==
  \E n \in 0..MinLen(a, b) :
    /\ \A i \in 1..n : a[i] = b[i]
    /\ \/ n = Len(a) /\ n < Len(b)
       \/ n < Len(a) /\ n < Len(b) /\ CharCode(a[n + 1]) < CharCode(b[n + 1])

\* String.prototype.toLowerCase
LowerCase(s) == Bind(s, LAMBDA v : [i \in 1..Len(v) |-> ToLower(v[i])])

DigitVal(c) == (CHOOSE i \in 1..10 : DigitSeq[i] = c) - 1

\* parseInt(digits, 10) of a non-empty run of digits: the first n digits
RECURSIVE ParseIntTo(_, _)
ParseIntTo(ds, n) ==
  IF n = 0 THEN 0 ELSE ParseIntTo(ds, n - 1) * 10 + DigitVal(ds[n])
ParseInt(ds) == Bind(ds, LAMBDA v : ParseIntTo(v, Len(v)))

\* JavaScript null for a number-valued field
Null == -1
\* JavaScript truthiness of a number-or-null value (0 and null are falsy)
Truthy(n) == n # Null /\ n # 0

(***************************************************************************)
(* Regular expressions.  A pattern is a sequence of elements:              *)
(*   str  : a literal, one set of accepted characters per position         *)
(*   rep  : lo..hi characters of a set, greedy; cap = a capture group      *)
(*   lazy : lo or more characters of a set, as few as possible             *)
(*   bos, eos : the anchors ^ and $                                        *)
(*   nlb, nla : negative look-behind / look-ahead on one character         *)
(*   wb : the word boundary \b                                             *)
(* A match is <<[end, caps]>>; no match is <<>>.                           *)
(***************************************************************************)
Str(cs)        == [t |-> "str", cs |-> cs, lo |-> 0, hi |-> 0, cap |-> FALSE]
Rep(c, lo, hi) == [t |-> "rep", cs |-> c, lo |-> lo, hi |-> hi, cap |-> FALSE]
Cap(c, lo, hi) == [t |-> "rep", cs |-> c, lo |-> lo, hi |-> hi, cap |-> TRUE]
Lazy(c, lo)    == [t |-> "lazy", cs |-> c, lo |-> lo, hi |-> 0, cap |-> FALSE]
Bos            == [t |-> "bos", cs |-> {}, lo |-> 0, hi |-> 0, cap |-> FALSE]
Eos            == [t |-> "eos", cs |-> {}, lo |-> 0, hi |-> 0, cap |-> FALSE]
Nlb(c)         == [t |-> "nlb", cs |-> c, lo |-> 0, hi |-> 0, cap |-> FALSE]
Nla(c)         == [t |-> "nla", cs |-> c, lo |-> 0, hi |-> 0, cap |-> FALSE]
Wb             == [t |-> "wb", cs |-> {}, lo |-> 0, hi |-> 0, cap |-> FALSE]

\* a literal, case-sensitive / case-insensitive (the i flag)
Lit(s)   == Str([i \in 1..Len(s) |-> {s[i]}])
LitCI(s) == Str([i \in 1..Len(s) |-> {ToLower(s[i]), ToUpper(s[i])}])

\* an upper bound standing for "unbounded" in *, + quantifiers
Many == 64
\* \s
WS == Space

\* \w, and whether the character at position i is one
WordChars == Upper \cup Lower \cup Digit \cup {"_"}
WordAt(s, i) == i >= 1 /\ i <= Len(s) /\ s[i] \in WordChars

LitAt(s, i, cs) ==
  /\ i + Len(cs) - 1 <= Len(s)
  /\ \A j \in 1..Len(cs) : s[i + j - 1] \in cs[j]

\* the length of the run of characters of c that starts at position i
RunLen(s, i, c) ==
  CHOOSE n \in 0..(Len(s) - i + 1) :
    /\ \A j \in 0..(n - 1) : s[i + j] \in c
    /\ (n = Len(s) - i + 1 \/ s[i + n] \notin c)

MinOf(a, b) == IF a < b THEN a ELSE b

RECURSIVE MatchFrom(_, _, _, _)
RECURSIVE TryRep(_, _, _, _, _)
RECURSIVE TryLazy(_, _, _, _, _)

MatchFrom(s, i, p, k) ==
  IF k > Len(p) THEN <<[end |-> i, caps |-> <<>>]>>
  ELSE LET e == p[k] IN
    CASE e.t = "str" ->
           IF LitAt(s, i, e.cs) THEN MatchFrom(s, i + Len(e.cs), p, k + 1)
           ELSE <<>>
      [] e.t = "rep" ->
           Bind(MinOf(e.hi, RunLen(s, i, e.cs)),
                LAMBDA n : TryRep(s, i, p, k, n))
      [] e.t = "lazy" -> TryLazy(s, i, p, k, e.lo)
      [] e.t = "bos" -> IF i = 1 THEN MatchFrom(s, i, p, k + 1) ELSE <<>>
      [] e.t = "eos" ->
           IF i = Len(s) + 1 THEN MatchFrom(s, i, p, k + 1) ELSE <<>>
      [] e.t = "nlb" ->
           IF i > 1 /\ s[i - 1] \in e.cs THEN <<>>
           ELSE MatchFrom(s, i, p, k + 1)
      [] e.t = "nla" ->
           IF i <= Len(s) /\ s[i] \in e.cs THEN <<>>
           ELSE MatchFrom(s, i, p, k + 1)
      [] e.t = "wb" ->
           IF WordAt(s, i - 1) # WordAt(s, i) THEN MatchFrom(s, i, p, k + 1)
           ELSE <<>>

\* greedy: the longest run first, giving characters back one at a time
TryRep(s, i, p, k, n) ==
  IF n < p[k].lo THEN <<>>
  ELSE Bind(MatchFrom(s, i + n, p, k + 1), LAMBDA r :
         IF r = <<>> THEN TryRep(s, i, p, k, n - 1)
         ELSE IF p[k].cap
              THEN <<[end |-> r[1].end,
                      caps |-> <<SubSeq(s, i, i + n - 1)>> \o r[1].caps]>>
              ELSE r)

\* lazy: the shortest run first, taking one more character at a time
TryLazy(s, i, p, k, n) ==
  IF n > RunLen(s, i, p[k].cs) THEN <<>>
  ELSE Bind(MatchFrom(s, i + n, p, k + 1), LAMBDA r :
         IF r = <<>> THEN TryLazy(s, i, p, k, n + 1) ELSE r)

\* A regular expression is a sequence of alternatives (p1|p2|...), each a
\* pattern; at one position the first alternative that matches wins.
MinSet(S) == Bind(S, LAMBDA T : CHOOSE x \in T : \A y \in T : x <= y)

RECURSIVE MatchAltFrom(_, _, _, _)
MatchAltFrom(s, i, re, k) ==
  IF k > Len(re) THEN <<>>
  ELSE Bind(MatchFrom(s, i, re[k], 1), LAMBDA r :
         IF r # <<>> THEN r ELSE MatchAltFrom(s, i, re, k + 1))
MatchAlt(s, i, re) == MatchAltFrom(s, i, re, 1)

\* String.prototype.match without the g flag: the leftmost match, or <<>>
RECURSIVE SearchFrom(_, _, _)
SearchFrom(s, re, i) ==
  IF i > Len(s) + 1 THEN <<>>
  ELSE Bind(MatchAlt(s, i, re), LAMBDA r :
         IF r # <<>>
         THEN <<[start |-> i, end |-> r[1].end, caps |-> r[1].caps]>>
         ELSE SearchFrom(s, re, i + 1))
Search(s, re) == Bind(s, LAMBDA v : SearchFrom(v, re, 1))

\* RegExp.prototype.test
Test(s, re) == Search(s, re) # <<>>

\* String.prototype.replace(/re/g, repl): every match, left to right
RECURSIVE ReplaceAllFrom(_, _, _, _)
ReplaceAllFrom(s, re, repl, i) ==
  IF i > Len(s) THEN <<>>
  ELSE Bind(MatchAlt(s, i, re), LAMBDA r :
         IF r = <<>> THEN <<s[i]>> \o ReplaceAllFrom(s, re, repl, i + 1)
         ELSE IF r[1].end = i
              THEN repl \o <<s[i]>> \o ReplaceAllFrom(s, re, repl, i + 1)
              ELSE repl \o ReplaceAllFrom(s, re, repl, r[1].end))
ReplaceAll(s, re, repl) == Bind(s, LAMBDA v : ReplaceAllFrom(v, re, repl, 1))

\* String.prototype.replace(/re/, repl): the leftmost match only
ReplaceFirst(s, re, repl) ==
  Bind(s, LAMBDA v : Bind(Search(v, re), LAMBDA m :
    IF m = <<>> THEN v
    ELSE SubSeq(v, 1, m[1].start - 1) \o repl \o SubSeq(v, m[1].end, Len(v))))

\* String.prototype.trim
TrimLeft(s) ==
  Bind(s, LAMBDA v : SubSeq(v, RunLen(v, 1, WS) + 1, Len(v)))
TrimRight(s) ==
  Bind(s, LAMBDA v :
    SubSeq(v, 1, CHOOSE n \in 0..Len(v) :
                   /\ \A j \in (n + 1)..Len(v) : v[j] \in WS
                   /\ (n = 0 \/ v[n] \notin WS)))
Trim(s) == TrimRight(TrimLeft(s))

\* String.prototype.includes
Includes(s, sub) ==
  \E v \in {s} :
    \E i \in 1..(Len(v) - Len(sub) + 1) : SubSeq(v, i, i + Len(sub) - 1) = sub

(***************************************************************************)
(* ContentDetector (src/content-detector.js)                               *)
(***************************************************************************)
videoExtensions ==
  { <<".","m","p","4">>, <<".","m","k","v">>, <<".","a","v","i">>,
    <<".","m","o","v">>, <<".","w","m","v">>, <<".","f","l","v">>,
    <<".","w","e","b","m">>, <<".","m","4","v">>, <<".","t","s">>,
    <<".","m","2","t","s">> }

\* /\.[^.]+$/
ReExtension == << <<Lit(<<".">>), Rep(Chars \ {"."}, 1, Many), Eos>> >>

getFileExtension(filename) ==
  Bind(Search(filename, ReExtension), LAMBDA m :
    IF m = <<>> THEN <<>>
    ELSE LowerCase(SubSeq(filename, m[1].start, m[1].end - 1)))

isVideoFile(filename) == getFileExtension(filename) \in videoExtensions

\* the numeric-range guard of extractSeasonEpisode
MaxSeason == 50
MaxEpisode == 200

\* the season+episode patterns of extractSeasonEpisode, in the order tried
seasonEpisodePatterns ==
  << << <<LitCI(<<"S">>), Cap(Digit, 1, 2), LitCI(<<"E">>), Cap(Digit, 1, 2)>> >>,
     << <<Lit(<<ChDi>>), Cap(Digit, 1, 2), Lit(<<ChJi, ChDi>>),
          Cap(Digit, 1, 2), Lit(<<ChJie>>)>> >>,
     << <<LitCI(<<"S","e","a","s","o","n">>), Rep(WS, 0, Many),
          Cap(Digit, 1, 2), Rep(WS, 0, Many),
          LitCI(<<"E","p","i","s","o","d","e">>), Rep(WS, 0, Many),
          Cap(Digit, 1, 2)>> >>,
     << <<Nlb(Digit), Cap(Digit, 1, 2), Lit(<<"x">>), Cap(Digit, 1, 2),
          Nla(Digit)>> >>,
     << <<Lit(<<"[">>), Cap(Digit, 1, 2), Lit(<<"]","[">>), Cap(Digit, 1, 2),
          Lit(<<"]">>)>> >> >>

\* the episode-only patterns of extractSeasonEpisode, in the order tried
episodeOnlyPatterns ==
  << << <<LitCI(<<"E">>), Cap(Digit, 1, 2)>> >>,
     << <<Lit(<<ChDi>>), Cap(Digit, 1, 2), Lit(<<ChJie>>)>> >>,
     << <<LitCI(<<"E","p","i","s","o","d","e">>), Rep(WS, 0, Many),
          Cap(Digit, 1, 2)>> >> >>

\* a season+episode match that passes the range guard
SeasonEpisodeAccepted(filename, re) ==
  \E m \in {Search(filename, re)} :
    /\ m # <<>>
    /\ ~(ParseInt(m[1].caps[1]) > MaxSeason
          \/ ParseInt(m[1].caps[2]) > MaxEpisode)

\* an episode-only match that passes the range guard
EpisodeOnlyAccepted(filename, re) ==
  \E m \in {Search(filename, re)} :
    /\ m # <<>>
    /\ ~(ParseInt(m[1].caps[1]) > MaxEpisode)

\* the loop over the episode-only patterns, from pattern k on
RECURSIVE episodeOnlyFrom(_, _)
episodeOnlyFrom(filename, k) ==
  IF k > Len(episodeOnlyPatterns) THEN [season |-> Null, episode |-> Null]
  ELSE IF EpisodeOnlyAccepted(filename, episodeOnlyPatterns[k])
  THEN Bind(Search(filename, episodeOnlyPatterns[k]), LAMBDA m :
         [season |-> Null, episode |-> ParseInt(m[1].caps[1])])
  ELSE episodeOnlyFrom(filename, k + 1)

\* the loop over the season+episode patterns, from pattern k on
RECURSIVE seasonEpisodeFrom(_, _)
seasonEpisodeFrom(filename, k) ==
  IF k > Len(seasonEpisodePatterns) THEN episodeOnlyFrom(filename, 1)
  ELSE IF SeasonEpisodeAccepted(filename, seasonEpisodePatterns[k])
  THEN Bind(Search(filename, seasonEpisodePatterns[k]), LAMBDA m :
         [season |-> ParseInt(m[1].caps[1]),
          episode |-> ParseInt(m[1].caps[2])])
  ELSE seasonEpisodeFrom(filename, k + 1)

extractSeasonEpisode(filename) ==
  Bind(filename, LAMBDA f : seasonEpisodeFrom(f, 1))

Sp == <<" ">>

extractTitle(filename) ==
  LET t1 == ReplaceFirst(filename, ReExtension, <<>>)
      \* /[\(\（]\d{4}[\)\）]/g
      t2 == ReplaceAll(t1, << <<Str(<<{"(", ChFwL}>>), Rep(Digit, 4, 4),
                                Str(<<{")", ChFwR}>>)>> >>, <<>>)
      \* /\d{3,4}[pP]/g
      t3 == ReplaceAll(t2, << <<Rep(Digit, 3, 4), Str(<<{"p","P"}>>)>> >>, <<>>)
      \* /[xX]26[45]/g and /[hH]26[45]/g
      t4 == ReplaceAll(t3, << <<Str(<<{"x","X"}, {"2"}, {"6"}, {"4","5"}>>)>> >>, <<>>)
      t5 == ReplaceAll(t4, << <<Str(<<{"h","H"}, {"2"}, {"6"}, {"4","5"}>>)>> >>, <<>>)
      \* /AAC|AC3|DTS|TrueHD/gi
      t6 == ReplaceAll(t5, << <<LitCI(<<"A","A","C">>)>>, <<LitCI(<<"A","C","3">>)>>,
                              <<LitCI(<<"D","T","S">>)>>,
                              <<LitCI(<<"T","r","u","e","H","D">>)>> >>, <<>>)
      \* /BluRay|WEB-DL|HDTV|DVDRip/gi
      t7 == ReplaceAll(t6, << <<LitCI(<<"B","l","u","R","a","y">>)>>,
                              <<LitCI(<<"W","E","B","-","D","L">>)>>,
                              <<LitCI(<<"H","D","T","V">>)>>,
                              <<LitCI(<<"D","V","D","R","i","p">>)>> >>, <<>>)
      \* /S\d{1,2}E\d{1,2}/gi
      t8 == ReplaceAll(t7, << <<LitCI(<<"S">>), Rep(Digit, 1, 2), LitCI(<<"E">>),
                                Rep(Digit, 1, 2)>> >>, <<>>)
      \* /第\d{1,2}季第\d{1,2}集/g
      t9 == ReplaceAll(t8, << <<Lit(<<ChDi>>), Rep(Digit, 1, 2), Lit(<<ChJi, ChDi>>),
                                Rep(Digit, 1, 2), Lit(<<ChJie>>)>> >>, <<>>)
      \* /[\.\-_]+/g -> ' '
      t10 == ReplaceAll(t9, << <<Rep({".", "-", "_"}, 1, Many)>> >>, Sp)
      \* /\s+/g -> ' ', then trim()
      t11 == ReplaceAll(t10, << <<Rep(WS, 1, Many)>> >>, Sp)
  IN Trim(t11)

\* the season-folder patterns of matchSeasonFolder, in the order tried
seasonFolderPatterns ==
  << << <<Bos, LitCI(<<"S">>), Cap(Digit, 1, 2), Eos>> >>,
     << <<Bos, LitCI(<<"S","e","a","s","o","n">>), Rep(WS, 0, Many),
          Cap(Digit, 1, 2), Eos>> >>,
     << <<Bos, Lit(<<ChDi>>), Cap(Digit, 1, 2), Lit(<<ChJi>>), Eos>> >>,
     << <<Bos, LitCI(<<"S">>), Cap(Digit, 1, 2), Rep(WS, 1, 1)>> >> >>

\* matchSeasonFolder: <<>> is null, <<[season]>> the match object
RECURSIVE seasonFolderFrom(_, _)
seasonFolderFrom(folderName, k) ==
  IF k > Len(seasonFolderPatterns) THEN <<>>
  ELSE Bind(Search(folderName, seasonFolderPatterns[k]), LAMBDA m :
         IF m # <<>>
         THEN <<[season |-> ParseInt(m[1].caps[1]), original |-> folderName]>>
         ELSE seasonFolderFrom(folderName, k + 1))
matchSeasonFolder(folderName) ==
  Bind(folderName, LAMBDA f : seasonFolderFrom(f, 1))

\* analyzeFile: the type and title of one file
analyzeFile(file) ==
  Bind(extractSeasonEpisode(file.name), LAMBDA seasonEpisode :
    IF Truthy(seasonEpisode.season) \/ Truthy(seasonEpisode.episode)
    THEN [type |-> "episode", title |-> extractTitle(file.name),
          season |-> seasonEpisode.season, episode |-> seasonEpisode.episode]
    ELSE [type |-> "movie", title |-> extractTitle(file.name),
          season |-> Null, episode |-> Null])

\* analyzeDirectory: the primary type from the movie and tv tallies
analyzeDirectory(items) ==
  Bind(<<Cardinality({i \in 1..Len(items) :
           \/ items[i].is_dir /\ matchSeasonFolder(items[i].name) = <<>>
           \/ ~items[i].is_dir /\ isVideoFile(items[i].name)
                /\ analyzeFile(items[i]).type = "movie"}),
         Cardinality({i \in 1..Len(items) :
           \/ items[i].is_dir /\ matchSeasonFolder(items[i].name) # <<>>
           \/ ~items[i].is_dir /\ isVideoFile(items[i].name)
                /\ analyzeFile(items[i]).type = "episode"})>>,
    LAMBDA n :
      LET movieCount == n[1]
          tvCount == n[2]
      IN [movieCount |-> movieCount, tvCount |-> tvCount,
          primaryType |-> IF movieCount > tvCount THEN "movie"
                          ELSE IF tvCount > movieCount THEN "tv"
                          ELSE IF movieCount > 0 \/ tvCount > 0 THEN "mixed"
                          ELSE "unknown"])

(***************************************************************************)
(* PathAnalyzer (src/path-analyzer.js)                                     *)
(***************************************************************************)
\* /S(\d{1,2})E(\d{1,3})/i
ReSeasonEpisodePA ==
  << <<LitCI(<<"S">>), Cap(Digit, 1, 2), LitCI(<<"E">>), Cap(Digit, 1, 3)>> >>

\* /(?:EP?|第)(\d{1,3})(?:集)?/i
ReEpisodePA ==
  << <<LitCI(<<"E">>), Rep({"P", "p"}, 0, 1), Cap(Digit, 1, 3),
       Rep({ChJie}, 0, 1)>>,
     <<Lit(<<ChDi>>), Cap(Digit, 1, 3), Rep({ChJie}, 0, 1)>> >>

\* _analyzeFileName: the type, season and episode of the metadata record
analyzeFileName(filename) ==
  Bind(Search(filename, ReSeasonEpisodePA), LAMBDA seasonEpisodeMatch :
    IF seasonEpisodeMatch # <<>>
    THEN [type |-> "episode",
          season |-> ParseInt(seasonEpisodeMatch[1].caps[1]),
          episode |-> ParseInt(seasonEpisodeMatch[1].caps[2])]
    ELSE Bind(Search(filename, ReEpisodePA), LAMBDA episodeMatch :
      IF episodeMatch # <<>>
      THEN [type |-> "episode", season |-> Null,
            episode |-> ParseInt(episodeMatch[1].caps[1])]
      ELSE [type |-> "movie", season |-> Null, episode |-> Null]))

(***************************************************************************)
(* Arrays and paths                                                        *)
(***************************************************************************)
\* Array.prototype.sort with the comparator (a, b) => Key(a) - Key(b); the
\* sort is stable, so elements with equal keys keep their order
StableSort(seq, Key(_)) ==
  Bind(seq, LAMBDA v :
    LET n == Len(v)
        pos(i) == 1 + Cardinality({j \in 1..n :
                    \/ Key(v[j]) < Key(v[i])
                    \/ Key(v[j]) = Key(v[i]) /\ j < i})
    IN [k \in 1..n |-> v[CHOOSE i \in 1..n : pos(i) = k]])

\* Array.prototype.filter
FilterSeq(seq, Keep(_)) ==
  Bind(seq, LAMBDA v :
    Bind({i \in 1..Len(v) : Keep(v[i])}, LAMBDA idx :
      LET nth(k) == CHOOSE i \in idx : Cardinality({j \in idx : j < i}) = k - 1
      IN [k \in 1..Cardinality(idx) |-> v[nth(k)]]))

Slash == <<"/">>

\* String.prototype.split('/')
RECURSIVE SplitFrom(_, _)
SplitFrom(s, i) ==
  Bind(RunLen(s, i, Chars \ {"/"}), LAMBDA n :
    IF i + n > Len(s) THEN <<SubSeq(s, i, Len(s))>>
    ELSE <<SubSeq(s, i, i + n - 1)>> \o SplitFrom(s, i + n + 1))
Split(s) == Bind(s, LAMBDA v : SplitFrom(v, 1))

\* Array.prototype.join('/')
RECURSIVE JoinFrom(_, _)
JoinFrom(parts, i) ==
  IF i > Len(parts) THEN <<>>
  ELSE IF i = Len(parts) THEN parts[i]
  ELSE parts[i] \o Slash \o JoinFrom(parts, i + 1)
Join(parts) == Bind(parts, LAMBDA v : JoinFrom(v, 1))

\* `${parent}/${name}`
PathJoin(parent, name) == parent \o Slash \o name

\* { ...a, ...b }
Spread(a, b) ==
  Bind(<<a, b>>, LAMBDA v :
    [k \in DOMAIN v[1] \cup DOMAIN v[2] |->
       IF k \in DOMAIN v[2] THEN v[2][k] ELSE v[1][k]])

\* { as: o.field } when o has the field, {} when it has not (undefined)
Field(o, field, as) ==
  IF field \in DOMAIN o THEN [k \in {as} |-> o[field]] ELSE <<>>

\* delete o.f for every f of fields
Delete(o, fields) == Bind(o, LAMBDA v : [k \in DOMAIN v \ fields |-> v[k]])

(***************************************************************************)
(* The listing service.  A listing entry is [name, is_dir, children]; the  *)
(* tree of one configured root is the sequence of the root's entries, in   *)
(* the order the service returns them.                                     *)
(***************************************************************************)
Item(e) == [name |-> e.name, is_dir |-> e.is_dir]

\* the entries of the directory reached from `entries` by segs[i..]
RECURSIVE Descend(_, _, _)
Descend(entries, segs, i) ==
  IF i > Len(segs) THEN entries
  ELSE Bind({j \in 1..Len(entries) :
               entries[j].name = segs[i] /\ entries[j].is_dir}, LAMBDA hit :
         IF hit = {} THEN <<>>
         ELSE Bind(entries[MinSet(hit)].children, LAMBDA children :
                Descend(children, segs, i + 1)))

\* AlistAPI.listDirectory(path) under the root `root` whose tree is `tree`
listDirectory(root, tree, path) ==
  Bind(<<Split(root), Split(path)>>, LAMBDA sp :
    Bind(Descend(tree, sp[2], Len(sp[1]) + 1), LAMBDA es :
      [i \in 1..Len(es) |-> Item(es[i])]))

(***************************************************************************)
(* SmartDetector (src/unnamed/part_001)                                    *)
(***************************************************************************)
\* item.name.replace(/\.[^.]+$/, '')
StripExtension(name) == ReplaceFirst(name, ReExtension, <<>>)

\* the key of the comparator of _getSeasonEpisodes: (a.episode || 0)
EpisodeSortKey(e) ==
  IF "episode" \in DOMAIN e /\ Truthy(e.episode) THEN e.episode ELSE 0

\* the loop of _getSeasonEpisodes over the listing, episodes so far in acc
RECURSIVE CollectEpisodes(_, _, _, _)
CollectEpisodes(items, seasonPath, i, acc) ==
  IF i > Len(items) THEN acc
  ELSE LET item == items[i] IN
       IF ~item.is_dir /\ isVideoFile(item.name)
       THEN Bind(extractSeasonEpisode(item.name), LAMBDA episodeInfo :
              Bind(Append(acc,
                     IF Truthy(episodeInfo.episode)
                     THEN [episode_number |-> episodeInfo.episode,
                           name |-> extractTitle(item.name),
                           path |-> PathJoin(seasonPath, item.name)]
                     ELSE [episode_number |-> Len(acc) + 1,
                           name |-> StripExtension(item.name),
                           path |-> PathJoin(seasonPath, item.name)]),
                LAMBDA next : CollectEpisodes(items, seasonPath, i + 1, next)))
       ELSE CollectEpisodes(items, seasonPath, i + 1, acc)

getSeasonEpisodes(root, tree, seasonPath, seasonNumber) ==
  Bind(listDirectory(root, tree, seasonPath), LAMBDA items :
    StableSort(CollectEpisodes(items, seasonPath, 1, <<>>), EpisodeSortKey))

getMovieFiles(root, tree, moviePath) ==
  LET video(item) == ~item.is_dir /\ isVideoFile(item.name) IN
  Bind(FilterSeq(listDirectory(root, tree, moviePath), video), LAMBDA vs :
    [i \in 1..Len(vs) |->
       Spread(vs[i], [path |-> PathJoin(moviePath, vs[i].name)])])

\* _analyzeSubdirectory: [type, content]
analyzeSubdirectory(root, tree, item, parentPath) ==
  Bind(<<PathJoin(parentPath, item.name), matchSeasonFolder(item.name)>>,
       LAMBDA fm :
  Bind(listDirectory(root, tree, fm[1]), LAMBDA subItems :
  LET fullPath == fm[1]
      seasonMatch == fm[2]
      analysis == analyzeDirectory(subItems)
      hasSeasonEpisodeFiles ==
        \E i \in 1..Len(subItems) :
          /\ ~subItems[i].is_dir
          /\ isVideoFile(subItems[i].name)
          /\ Truthy(extractSeasonEpisode(subItems[i].name).episode)
      hasSeasonFolders ==
        \E i \in 1..Len(subItems) :
          subItems[i].is_dir /\ matchSeasonFolder(subItems[i].name) # <<>>
  IN IF seasonMatch # <<>>
     THEN [type |-> "tvshow",
           content |->
             [title |-> item.name, path |-> fullPath, type |-> "tvshow",
              seasons |-> <<[season |-> seasonMatch[1].season,
                             episodes |-> getSeasonEpisodes(root, tree, fullPath,
                                            seasonMatch[1].season)]>>]]
     ELSE IF hasSeasonEpisodeFiles \/ hasSeasonFolders
             \/ analysis.primaryType = "tv"
     THEN [type |-> "tvshow",
           content |->
             [title |-> item.name, path |-> fullPath, type |-> "tvshow",
              mediaType |-> "tv",
              seasons |-> <<[season |-> 1,
                             episodes |-> getSeasonEpisodes(root, tree, fullPath, 1)]>>]]
     ELSE [type |-> "movie",
           content |->
             [title |-> item.name, path |-> fullPath, type |-> "movie",
              mediaType |-> "movie",
              files |-> getMovieFiles(root, tree, fullPath)]]))

\* `n || 1`
OrOne(n) == IF Truthy(n) THEN n ELSE 1

\* the Candidate _analyzePathWithConfig builds for a loose episode file
episodeFileCandidate(item, rootPath) ==
  Bind(<<analyzeFile(item), extractSeasonEpisode(item.name),
         PathJoin(rootPath, item.name)>>, LAMBDA v :
  LET fileResult == v[1]
      seasonInfo == v[2]
      p == v[3]
  IN [title |-> fileResult.title, path |-> p, type |-> "tvshow",
      mediaType |-> "tv",
      seasons |-> <<[season |-> OrOne(seasonInfo.season),
                     episodes |-> <<[season |-> OrOne(seasonInfo.season),
                                     episode |-> OrOne(seasonInfo.episode),
                                     title |-> fileResult.title,
                                     path |-> p,
                                     file |-> Spread(item, [path |-> p])]>>]>>])

\* the Candidate _analyzePathWithConfig builds for a loose movie file
movieFileCandidate(item, rootPath) ==
  LET p == PathJoin(rootPath, item.name) IN
  [title |-> analyzeFile(item).title, path |-> p, type |-> "movie",
   mediaType |-> "movie", files |-> <<Spread(item, [path |-> p])>>]

UnknownSeries ==
  <<"U","n","k","n","o","w","n"," ","S","e","r","i","e","s">>

\* /^S\d{2}$/ and /^第\d+季$/
ReBareSeason ==
  << <<Bos, Lit(<<"S">>), Rep(Digit, 2, 2), Eos>>,
     <<Bos, Lit(<<ChDi>>), Rep(Digit, 1, Many), Lit(<<ChJi>>), Eos>> >>

\* the walk of _extractSeriesName up the path, from index i down to 1
RECURSIVE NearestNamedPart(_, _, _)
NearestNamedPart(pathParts, i, dflt) ==
  IF i < 1 THEN dflt
  ELSE IF pathParts[i] # <<>> /\ ~Test(pathParts[i], ReBareSeason)
       THEN pathParts[i]
       ELSE NearestNamedPart(pathParts, i - 1, dflt)

\* the string cleaning of _extractSeriesName
cleanSeriesName(name) ==
  LET \* /[\(\（].*?[\)\）]/g
      c1 == ReplaceAll(name, << <<Str(<<{"(", ChFwL}>>), Lazy(Chars, 0),
                                  Str(<<{")", ChFwR}>>)>> >>, <<>>)
      \* /S\d{2}-S\d{2}季全集/g
      c2 == ReplaceAll(c1, << <<Lit(<<"S">>), Rep(Digit, 2, 2), Lit(<<"-","S">>),
                                Rep(Digit, 2, 2), Lit(<<ChJi, ChQuan, ChJie>>)>> >>,
                       <<>>)
      \* /\d{4}P/g
      c3 == ReplaceAll(c2, << <<Rep(Digit, 4, 4), Lit(<<"P">>)>> >>, <<>>)
      \* /[中英日韩]语.*?字/g
      c4 == ReplaceAll(c3, << <<Str(<<{ChZhong, ChYing, ChRi, ChHan}, {ChYu}>>),
                                Lazy(Chars, 0), Lit(<<ChZi>>)>> >>, <<>>)
      \* /\s+/g -> ' ', then trim()
      c5 == ReplaceAll(c4, << <<Rep(WS, 1, Many)>> >>, Sp)
  IN Trim(c5)

\* _extractSeriesName(show)
extractSeriesName(show) ==
  IF show.title = <<>> THEN UnknownSeries
  ELSE LET named ==
             IF Test(show.title, ReBareSeason) /\ "path" \in DOMAIN show
                  /\ show.path # <<>>
             THEN Bind(Split(show.path), LAMBDA pathParts :
                    NearestNamedPart(pathParts, Len(pathParts) - 1, show.title))
             ELSE show.title
       IN Bind(cleanSeriesName(named), LAMBDA cleaned :
            IF cleaned # <<>> THEN cleaned ELSE show.title)

\* the key of the comparator of _mergeTvSeasons: (a.season || 1)
SeasonSortKey(f) ==
  IF "season" \in DOMAIN f /\ Truthy(f.season) THEN f.season ELSE 1

\* one turn of the loop of _mergeTvSeasons: seriesMap, in insertion order
addToSeries(acc, show) ==
  Bind(extractSeriesName(show), LAMBDA seriesName :
    LET hasPath == "path" \in DOMAIN show /\ show.path # <<>>
        hit == {i \in 1..Len(acc) : acc[i].title = seriesName}
    IN IF hit # {}
       THEN LET i == MinSet(hit)
                ex == acc[i]
                paths == IF hasPath /\ ~(\E j \in 1..Len(ex.paths) :
                                           ex.paths[j] = show.path)
                         THEN Append(ex.paths, show.path) ELSE ex.paths
            IN [acc EXCEPT ![i] =
                  [ex EXCEPT !.seasons = ex.seasons \o show.seasons,
                             !.paths = paths]]
       ELSE Append(acc, [title |-> seriesName, type |-> "tvshow",
                         seasons |-> show.seasons,
                         paths |-> IF hasPath THEN <<show.path>> ELSE <<>>]))

\* the loop of _mergeTvSeasons from show k on, seriesMap so far in acc
RECURSIVE GroupSeries(_, _, _)
GroupSeries(tvShows, k, acc) ==
  IF k > Len(tvShows) THEN acc
  ELSE Bind(addToSeries(acc, tvShows[k]), LAMBDA next :
         GroupSeries(tvShows, k + 1, next))

\* the last step of _mergeTvSeasons on one series: sort, set the main path
finishSeries(series) ==
  Bind([series EXCEPT !.seasons = StableSort(series.seasons, SeasonSortKey)],
       LAMBDA sorted :
    IF Len(series.paths) > 0
    THEN Bind(Split(series.paths[1]), LAMBDA pathParts :
           Spread(sorted,
                  [path |-> Join(SubSeq(pathParts, 1, Len(pathParts) - 1))]))
    ELSE sorted)

mergeTvSeasons(tvShows) ==
  Bind(GroupSeries(tvShows, 1, <<>>), LAMBDA grouped :
    [i \in 1..Len(grouped) |-> finishSeries(grouped[i])])

(***************************************************************************)
(* TMDbAPI (src/content-detector.js).  The catalogue of the service is a   *)
(* sequence of entries [id, media_type, title, popularity,                 *)
(* number_of_seasons], in the order the search end points list them; a     *)
(* search answers with the entries whose title is the query, letter case   *)
(* ignored, and the service answers every request.  A result of the API    *)
(* is <<>> (null) or <<record>>.                                           *)
(***************************************************************************)
NameMovie == <<"M","o","v","i","e">>
NameShow  == <<"S","h","o","w">>
NameDark  == <<"D","a","r","k">>

meaninglessKeywords ==
  << <<ChDian, ChYingPic>>, <<ChDong, ChMan>>, <<ChShi, ChPin>>,
     <<ChXia, ChZai>>, <<ChWan, ChCheng>>, <<ChHe, ChJie>>, <<ChQuan, ChJie>>,
     <<ChYingPic, ChPian>>, <<ChDian, ChShi, ChJu>>,
     <<"m","o","v","i","e">>, <<"m","o","v","i","e","s">>, <<"t","v">>,
     <<"s","e","r","i","e","s">>, <<"s","e","a","s","o","n">>,
     <<"e","p","i","s","o","d","e">>, <<"v","i","d","e","o">>,
     <<"f","i","l","m">> >>
    \o [k \in 1..10 |-> <<"S">> \o (IF k = 10 THEN <<"1","0">>
                                    ELSE <<"0", DigitSeq[k + 1]>>)]
    \o [k \in 1..10 |-> <<"E">> \o (IF k = 10 THEN <<"1","0">>
                                    ELSE <<"0", DigitSeq[k + 1]>>)]

\* /^(S\d{1,2}|E\d{1,2}|第\d+[季集])$/i
RePureMarker ==
  << <<Bos, LitCI(<<"S">>), Rep(Digit, 1, 2), Eos>>,
     <<Bos, LitCI(<<"E">>), Rep(Digit, 1, 2), Eos>>,
     <<Bos, Lit(<<ChDi>>), Rep(Digit, 1, Many), Str(<<{ChJi, ChJie}>>), Eos>> >>

filterMeaninglessKeywords(keyword) ==
  Bind(LowerCase(Trim(keyword)), LAMBDA trimmed :
    /\ ~\E i \in 1..Len(meaninglessKeywords) :
          \E word \in {LowerCase(meaninglessKeywords[i])} :
            \/ trimmed = word
            \/ Includes(trimmed, word) /\ Len(trimmed) <= Len(word) + 2
    /\ ~Test(trimmed, RePureMarker)
    /\ Len(trimmed) >= 2)

\* a name that is one word of four letters or more
OneWord(name) ==
  Len(name) >= 4 /\ \A i \in 1..Len(name) : name[i] \in Upper \cup Lower

\* uniqueCandidates of getMediaDetails(name, name, ...).  For a name that
\* is one word (no extension, no id in parentheses, no tag that
\* _extractOriginalTitle removes) every candidate _smartCleanFileName
\* derives is the name itself; names of another shape are not modelled.
uniqueCandidates(name) ==
  IF OneWord(name) /\ filterMeaninglessKeywords(name) THEN <<name>> ELSE <<>>

\* the results of the end point `kind` ("multi", "movie", "tv") for query
searchResults(catalog, kind, query) ==
  Bind(LowerCase(query), LAMBDA q :
    LET hit(entry) == /\ LowerCase(entry.title) = q
                      /\ kind \in {"multi", entry.media_type}
    IN FilterSeq(catalog, hit))

\* the score _selectBestResult sorts by, times ten (vote_average is 0)
Score(item) == item.popularity * 7

NegScore(item) == 0 - Score(item)

\* _selectBestResult(results, mediaType)
selectBestResult(results, mediaType) ==
  IF Len(results) = 0 THEN <<>>
  ELSE LET ofType(item) == item.media_type = mediaType
       IN Bind(IF mediaType \in {"movie", "tv"}
               THEN FilterSeq(results, ofType) ELSE results, LAMBDA typed :
            Bind(IF Len(typed) = 0 THEN results ELSE typed, LAMBDA filtered :
              <<StableSort(filtered, NegScore)[1]>>))

\* _smartMultiLanguageSearch from candidate k on.  The variations of a
\* candidate ("<candidate> movie", ...) are no title of the catalogue.
RECURSIVE smartMultiLanguageSearch(_, _, _, _)
smartMultiLanguageSearch(catalog, titleCandidates, mediaType, k) ==
  IF k > Len(titleCandidates) THEN <<>>
  ELSE Bind(searchResults(catalog, "multi", titleCandidates[k]), LAMBDA rs :
         IF Len(rs) > 0 THEN selectBestResult(rs, mediaType)
         ELSE smartMultiLanguageSearch(catalog, titleCandidates, mediaType,
                                       k + 1))

\* the seasons TMDb lists for a series
TmdbSeasons(n) == [k \in 1..n |-> [season_number |-> k, episode_count |-> 2]]

\* the fields of a movie record and of a series record that the generator
\* reads
movieRecord(entry) ==
  [id |-> entry.id, title |-> entry.title, media_type |-> "movie"]
tvRecord(entry) ==
  [id |-> entry.id, title |-> entry.title, media_type |-> "tv",
   number_of_seasons |-> entry.number_of_seasons,
   number_of_episodes |-> 2 * entry.number_of_seasons,
   seasons |-> TmdbSeasons(entry.number_of_seasons)]

\* getMediaDetails(name, name, mediaType)
getMediaDetails(catalog, name, mediaType) ==
  Bind(uniqueCandidates(name), LAMBDA candidates :
    IF Len(candidates) = 0 THEN <<>>
    ELSE Bind(smartMultiLanguageSearch(catalog, candidates, mediaType, 1),
              LAMBDA selectedItem :
           IF selectedItem = <<>> THEN <<>>
           ELSE IF selectedItem[1].media_type = "tv"
           THEN <<tvRecord(selectedItem[1])>>
           ELSE <<movieRecord(selectedItem[1])>>))

\* searchMovie(query) and searchTv(query): the first result, with details
searchMovie(catalog, query) ==
  Bind(searchResults(catalog, "movie", query), LAMBDA rs :
    IF Len(rs) = 0 THEN <<>> ELSE <<movieRecord(rs[1])>>)
searchTv(catalog, query) ==
  Bind(searchResults(catalog, "tv", query), LAMBDA rs :
    IF Len(rs) = 0 THEN <<>> ELSE <<tvRecord(rs[1])>>)

(***************************************************************************)
(* Strings of ids                                                          *)
(***************************************************************************)
\* Number.prototype.toString
RECURSIVE ToStr(_)
ToStr(n) ==
  IF n < 10 THEN <<DigitSeq[n + 1]>>
  ELSE ToStr(n \div 10) \o <<DigitSeq[(n % 10) + 1]>>

PrefixMovie == <<"m","o","v","i","e","_">>
PrefixTv == <<"t","v","_">>
PrefixUnknownMovie ==
  <<"u","n","k","n","o","w","n","_","m","o","v","i","e","_">>
PrefixUnknownTv == <<"u","n","k","n","o","w","n","_","t","v","_">>

\* String.prototype.startsWith
StartsWith(s, prefix) ==
  Len(s) >= Len(prefix) /\ SubSeq(s, 1, Len(prefix)) = prefix

\* title.replace(/[^a-zA-Z0-9]/g, '_')
SanitizeTitle(title) ==
  Bind(title, LAMBDA v :
    [i \in 1..Len(v) |->
       IF v[i] \in Upper \cup Lower \cup Digit THEN v[i] ELSE "_"])

\* seasons.reduce((total, season) => total + season.episodes.length, 0)
RECURSIVE CountEpisodes(_, _)
CountEpisodes(seasons, n) ==
  IF n = 0 THEN 0
  ELSE CountEpisodes(seasons, n - 1)
         + (IF "episodes" \in DOMAIN seasons[n]
            THEN Len(seasons[n].episodes) ELSE 0)
episodeCount(seasons) == Bind(seasons, LAMBDA v : CountEpisodes(v, Len(v)))

(***************************************************************************)
(* SmartDetector._enrichWithTmdbData (src/unnamed/part_001)                *)
(***************************************************************************)
\* seasons.map(season => ({ season_number: season.season, episodes }))
\* season_number is undefined (absent) when the fragment has no `season`
smartSeasons(seasons) ==
  Bind(seasons, LAMBDA v :
    [k \in 1..Len(v) |->
       Spread([episodes |-> IF "episodes" \in DOMAIN v[k]
                            THEN v[k].episodes ELSE <<>>],
              Field(v[k], "season", "season_number"))])

\* organized.movies[i] after tmdbApi.searchMovie(movie.title) answered
smartMovie(movie, tmdbData) ==
  IF tmdbData # <<>>
  THEN Spread(tmdbData[1],
         [id |-> PrefixMovie \o ToStr(tmdbData[1].id),
          media_type |-> "movie", directory_type |-> "movie",
          detection_method |-> "smart",
          original_tmdb_id |-> tmdbData[1].id,
          original_path |-> movie.path,
          files |-> movie.files])
  ELSE Spread(movie,
         [id |-> PrefixMovie \o SanitizeTitle(movie.title),
          media_type |-> "movie", directory_type |-> "movie",
          detection_method |-> "smart"])

\* organized.tvShows[i] after tmdbApi.searchTv(tvShow.title) answered
smartTvShow(tvShow, tmdbData) ==
  IF tmdbData # <<>>
  THEN Spread(tmdbData[1],
         [id |-> PrefixTv \o ToStr(tmdbData[1].id),
          media_type |-> "tv", directory_type |-> "tv",
          detection_method |-> "smart",
          original_tmdb_id |-> tmdbData[1].id,
          original_path |-> tvShow.path,
          seasons |-> smartSeasons(tvShow.seasons),
          episode_count |-> episodeCount(tvShow.seasons)])
  ELSE Spread(tvShow,
         [id |-> PrefixTv \o SanitizeTitle(tvShow.title),
          media_type |-> "tv", directory_type |-> "tv",
          detection_method |-> "smart",
          seasons |-> smartSeasons(tvShow.seasons),
          episode_count |-> episodeCount(tvShow.seasons)])

(***************************************************************************)
(* generateSmartMovieData (src/content-detector.js)                        *)
(***************************************************************************)
\* /S\d{2}E\d{2}/i and /第.*季.*集/i
ReEpisodeFile ==
  << <<LitCI(<<"S">>), Rep(Digit, 2, 2), LitCI(<<"E">>), Rep(Digit, 2, 2)>> >>
ReSeasonEpisodeCn ==
  << <<Lit(<<ChDi>>), Rep(Chars, 0, Many), Lit(<<ChJi>>), Rep(Chars, 0, Many),
       Lit(<<ChJie>>)>> >>

\* path.split('/').pop()
LastSegment(path) == Bind(Split(path), LAMBDA parts : parts[Len(parts)])

\* the first correction loop, on one detected movie: [movies, tvShows]
correctMovie(movie) ==
  IF "seasons" \in DOMAIN movie /\ Len(movie.seasons) > 0
  THEN [movies |-> <<>>,
        tvShows |-> <<Spread(
          [title |-> movie.title, type |-> "tvshow",
           seasons |->
             [k \in 1..Len(movie.seasons) |->
                [season |->
                   IF "season_number" \in DOMAIN movie.seasons[k]
                        /\ Truthy(movie.seasons[k].season_number)
                   THEN movie.seasons[k].season_number
                   ELSE IF "season" \in DOMAIN movie.seasons[k]
                   THEN OrOne(movie.seasons[k].season) ELSE 1,
                 episodes |-> IF "episodes" \in DOMAIN movie.seasons[k]
                              THEN movie.seasons[k].episodes ELSE <<>>]]],
          Field(movie, "path", "path"))>>]
  ELSE [movies |-> <<movie>>, tvShows |-> <<>>]

\* the second correction loop reads tvShow.path.includes of a series that
\* has no path: a TypeError, which ends generateSmartMovieData in its catch
correctTvThrows(tvShow) ==
  /\ "seasons" \in DOMAIN tvShow /\ Len(tvShow.seasons) = 1
  /\ "episodes" \in DOMAIN tvShow.seasons[1]
  /\ Len(tvShow.seasons[1].episodes) = 1
  /\ ~Includes(tvShow.title, <<"S","0">>)
  /\ "path" \notin DOMAIN tvShow

\* the second correction loop, on one merged series: [movies, tvShows]
correctTvShow(tvShow) ==
  IF /\ "seasons" \in DOMAIN tvShow /\ Len(tvShow.seasons) = 1
     /\ "episodes" \in DOMAIN tvShow.seasons[1]
     /\ Len(tvShow.seasons[1].episodes) = 1
     /\ ~Includes(tvShow.title, <<"S","0">>)
     /\ ~Includes(tvShow.path, <<"/","S","0">>)
  THEN LET episode == tvShow.seasons[1].episodes[1]
           fileName == IF "file" \in DOMAIN episode THEN episode.file.name
                       ELSE LastSegment(episode.path)
       IN IF ~Test(fileName, ReEpisodeFile) /\ ~Test(fileName, ReSeasonEpisodeCn)
          THEN [movies |->
                  <<[title |-> tvShow.title, path |-> episode.path,
                     type |-> "movie",
                     files |-> <<IF "file" \in DOMAIN episode THEN episode.file
                                 ELSE [path |-> episode.path,
                                       name |-> fileName]>>]>>,
                tvShows |-> <<>>]
          ELSE [movies |-> <<>>, tvShows |-> <<tvShow>>]
  ELSE [movies |-> <<>>, tvShows |-> <<tvShow>>]

\* both correction loops: correctedMovies and correctedTvShows
RECURSIVE correctAll(_, _, _, _)
correctAll(movies, tvShows, k, acc) ==
  IF k > Len(movies) + Len(tvShows) THEN acc
  ELSE Bind(IF k <= Len(movies) THEN correctMovie(movies[k])
            ELSE correctTvShow(tvShows[k - Len(movies)]), LAMBDA r :
         Bind([movies |-> acc.movies \o r.movies,
               tvShows |-> acc.tvShows \o r.tvShows], LAMBDA next :
           correctAll(movies, tvShows, k + 1, next)))

\* movieMap, a Map in insertion order: a sequence of [key, value]
MapIndex(map, key) ==
  Bind({i \in 1..Len(map) : map[i].key = key}, LAMBDA hit :
    IF hit = {} THEN 0 ELSE MinSet(hit))
MapSet(map, key, value) ==
  Bind(MapIndex(map, key), LAMBDA i :
    IF i = 0 THEN Append(map, [key |-> key, value |-> value])
    ELSE [map EXCEPT ![i] = [key |-> key, value |-> value]])

\* the body of the loop over detectedMovies once getMediaDetails answered
\* tmdbInfo; fresh numbers the synthetic id of an unknown movie
putMovie(map, movie, tmdbInfo, fresh) ==
  IF tmdbInfo # <<>>
  THEN Bind(ToStr(tmdbInfo[1].id), LAMBDA uniqueId :
         Bind(MapIndex(map, uniqueId), LAMBDA i :
           IF i # 0
           THEN Bind(map[i].value.files \o movie.files, LAMBDA files :
                  [map EXCEPT ![i].value =
                     Spread(@, [files |-> files, file_count |-> Len(files)])])
           ELSE MapSet(map, uniqueId,
                  Spread(tmdbInfo[1],
                    [id |-> uniqueId,
                     original_tmdb_id |-> tmdbInfo[1].id,
                     files |-> movie.files,
                     file_count |-> Len(movie.files),
                     directory_type |-> "movie",
                     detection_method |-> "smart"]))))
  ELSE MapSet(map, PrefixUnknownMovie \o ToStr(fresh),
         [id |-> PrefixUnknownMovie \o ToStr(fresh),
          title |-> movie.title,
          media_type |-> "movie", directory_type |-> "movie",
          files |-> movie.files, file_count |-> Len(movie.files),
          detection_method |-> "smart"])

\* tvShow.seasons.map(...) of the loop over detectedTvShows: season_number
\* is season.season, episode_number is episode.episode (absent = undefined)
detailEpisode(episode) ==
  Spread(Spread([path |-> episode.path],
                Field(episode, "episode", "episode_number")),
         Field(episode, "title", "name"))
detailSeasons(seasons) ==
  Bind(seasons, LAMBDA v :
    [k \in 1..Len(v) |->
       Spread([episodes |-> [e \in 1..Len(v[k].episodes) |->
                               detailEpisode(v[k].episodes[e])]],
              Field(v[k], "season", "season_number"))])

\* the body of the loop over detectedTvShows once getMediaDetails answered
putTvShow(map, tvShow, tmdbInfo, fresh) ==
  IF tmdbInfo # <<>>
  THEN Bind(detailSeasons(tvShow.seasons), LAMBDA seasons :
         MapSet(map, PrefixTv \o ToStr(tmdbInfo[1].id),
           Spread(tmdbInfo[1],
             [id |-> PrefixTv \o ToStr(tmdbInfo[1].id),
              original_tmdb_id |-> tmdbInfo[1].id,
              seasons |-> seasons,
              files |-> <<>>,
              episode_count |-> episodeCount(seasons),
              directory_type |-> "tv",
              detection_method |-> "smart"])))
  ELSE MapSet(map, PrefixUnknownTv \o ToStr(fresh),
         [id |-> PrefixUnknownTv \o ToStr(fresh),
          title |-> tvShow.title,
          media_type |-> "tv", directory_type |-> "tv",
          seasons |-> tvShow.seasons,
          files |-> <<>>,
          episode_count |-> episodeCount(tvShow.seasons),
          detection_method |-> "smart"])

\* `${item.title}_${item.media_type}`
MediaTypeChars(mediaType) ==
  IF mediaType = "movie" THEN <<"m","o","v","i","e">> ELSE <<"t","v">>
groupKey(item) == item.title \o <<"_">> \o MediaTypeChars(item.media_type)

VersionMovie == "movie version"
VersionTv == "tv version"
VersionDefault == "default version"

getVersionName(version) ==
  IF StartsWith(version.id, PrefixMovie) THEN VersionMovie
  ELSE IF StartsWith(version.id, PrefixTv) THEN VersionTv
  ELSE IF "directory_type" \in DOMAIN version /\ version.directory_type = "movie"
  THEN VersionMovie
  ELSE IF "directory_type" \in DOMAIN version /\ version.directory_type = "tv"
  THEN VersionTv
  ELSE VersionDefault

\* v.files && v.files.length > 0, v.seasons && v.seasons.length > 0
HasFiles(v) == "files" \in DOMAIN v /\ Len(v.files) > 0
HasSeasons(v) == "seasons" \in DOMAIN v /\ Len(v.seasons) > 0

\* the choice of a main version by position alone
selectFirstVersion(versions) == versions[1]

selectMainVersion(versions) ==
  Bind(<<FilterSeq(versions, HasFiles), FilterSeq(versions, HasSeasons)>>,
       LAMBDA w :
    IF Len(w[1]) > 0 THEN w[1][1]
    ELSE IF Len(w[2]) > 0 THEN w[2][1]
    ELSE versions[1])

\* one element of the versions list of an aggregated entry
versionOf(version, isMain) ==
  Spread([id |-> version.id,
          version_name |-> getVersionName(version),
          is_main |-> isMain,
          media_type |-> version.media_type,
          files |-> IF "files" \in DOMAIN version THEN version.files ELSE <<>>,
          seasons |-> IF "seasons" \in DOMAIN version
                      THEN version.seasons ELSE <<>>],
         Field(version, "directory_type", "directory_type"))

\* the entry aggregateSameNameContent emits for one group
aggregateGroup(items) ==
  IF Len(items) = 1 THEN items[1]
  ELSE Bind(selectMainVersion(items), LAMBDA mainVersion :
         LET other(item) == item.id # mainVersion.id
             otherVersions == FilterSeq(items, other)
         IN Spread(mainVersion,
              [id |-> mainVersion.id,
               versions |->
                 <<versionOf(mainVersion, TRUE)>>
                   \o [k \in 1..Len(otherVersions) |->
                         versionOf(otherVersions[k], FALSE)],
               is_aggregated |-> TRUE,
               aggregated_count |-> Len(items)]))

\* the group keys of contentList in the order of their first appearance
GroupKeys(contentList) ==
  Bind([i \in 1..Len(contentList) |-> groupKey(contentList[i])], LAMBDA keys :
    LET first(i) == \A j \in 1..(i - 1) : keys[j] # keys[i]
        firsts == FilterSeq([i \in 1..Len(keys) |-> i], first)
    IN [k \in 1..Len(firsts) |-> keys[firsts[k]]])

aggregateSameNameContent(contentList) ==
  Bind(<<contentList, GroupKeys(contentList)>>, LAMBDA v :
    [g \in 1..Len(v[2]) |->
       LET member(item) == groupKey(item) = v[2][g]
       IN aggregateGroup(FilterSeq(v[1], member))])

\* finalMovies.map(...): a movie record keeps no season field
correctedMovie(movie) ==
  Bind(Delete(movie, {"seasons", "episode_count", "number_of_seasons",
                      "number_of_episodes"}), LAMBDA corrected :
    IF ~StartsWith(corrected.id, PrefixMovie)
    THEN [corrected EXCEPT !.id =
            PrefixMovie \o (IF "original_tmdb_id" \in DOMAIN corrected
                                 /\ Truthy(corrected.original_tmdb_id)
                            THEN ToStr(corrected.original_tmdb_id)
                            ELSE corrected.id)]
    ELSE corrected)

\* finalTvShows.map(...): a tv record has seasons and episode_count
correctedTvShow(tvShow) ==
  Bind(IF ~StartsWith(tvShow.id, PrefixTv)
       THEN [tvShow EXCEPT !.id =
               PrefixTv \o (IF "original_tmdb_id" \in DOMAIN tvShow
                                 /\ Truthy(tvShow.original_tmdb_id)
                            THEN ToStr(tvShow.original_tmdb_id)
                            ELSE ReplaceFirst(tvShow.id,
                                              << <<Lit(PrefixMovie)>> >>, <<>>))]
       ELSE tvShow, LAMBDA c1 :
    Bind(IF "seasons" \notin DOMAIN c1 THEN Spread(c1, [seasons |-> <<>>])
         ELSE c1, LAMBDA c2 :
      IF "episode_count" \notin DOMAIN c2 \/ c2.episode_count = 0
      THEN Spread(c2, [episode_count |-> episodeCount(c2.seasons)])
      ELSE c2))

\* allContent.filter(...) for the movie list and for the tv list
IsFinalMovie(item) ==
  item.media_type = "movie"
    \/ ("directory_type" \in DOMAIN item /\ item.directory_type = "movie")
IsFinalTvShow(item) ==
  item.media_type = "tv"
    \/ ("directory_type" \in DOMAIN item /\ item.directory_type = "tv")

(***************************************************************************)
(* PathAnalyzer: the walk of analyzePath (src/path-analyzer.js)            *)
(***************************************************************************)
\* CJK characters of specialDirs not named above: 纪 录 画
ChJiDoc == "U+7EAA"
ChLu    == "U+5F55"
ChHua   == "U+753B"

\* config.maxDepth || 10
DefaultMaxDepth == 10

ignoreDirs ==
  << <<".","D","S","_","S","t","o","r","e">>,
     <<"T","h","u","m","b","s",".","d","b">>,
     <<"@","e","a","D","i","r">>,
     <<".","@","_","_","t","h","u","m","b">>,
     <<"e","x","t","r","a","s">>,
     <<"b","e","h","i","n","d"," ","t","h","e"," ","s","c","e","n","e","s">>,
     <<"d","e","l","e","t","e","d"," ","s","c","e","n","e","s">>,
     <<"f","e","a","t","u","r","e","t","t","e","s">>,
     <<"i","n","t","e","r","v","i","e","w","s">>,
     <<"s","c","e","n","e","s">>,
     <<"s","h","o","r","t","s">>,
     <<"t","r","a","i","l","e","r","s">>,
     <<"o","t","h","e","r">>,
     <<"s","a","m","p","l","e">>,
     <<"s","a","m","p","l","e","s">> >>

\* the constructor: the defaults, then ...config over them
PathAnalyzerConfig(config) ==
  Spread([maxDepth |-> IF "maxDepth" \in DOMAIN config /\ config.maxDepth # 0
                       THEN config.maxDepth ELSE DefaultMaxDepth,
          ignoreDirs |-> IF "ignoreDirs" \in DOMAIN config
                         THEN config.ignoreDirs ELSE ignoreDirs],
         config)

\* [\s\._-]
SepPA == WS \cup {".", "_", "-"}

\* specialDirs, in the order of Object.entries
specialDirs ==
  << [type |-> "seasons", pattern |->
        << <<Bos, LitCI(<<"S","e","a","s","o","n">>), Rep(SepPA, 0, Many), Cap(Digit, 1, 2),
             Rep({ChJi}, 0, 1), Eos>>,
           <<Bos, LitCI(<<"S">>), Rep(SepPA, 0, Many), Cap(Digit, 1, 2),
             Rep({ChJi}, 0, 1), Eos>>,
           <<Bos, Lit(<<ChDi>>), Rep(SepPA, 0, Many), Cap(Digit, 1, 2),
             Rep({ChJi}, 0, 1), Eos>> >>],
     [type |-> "movies", pattern |->
        << <<Bos, LitCI(<<"M","o","v","i","e">>), Rep({"s", "S"}, 0, 1), Eos>>,
           <<Bos, Lit(<<ChDian, ChYingPic>>), Eos>>,
           <<Bos, Lit(<<ChYingPic, ChPian>>), Eos>> >>],
     [type |-> "tvShows", pattern |->
        << <<Bos, LitCI(<<"T","V">>), Eos>>,
           <<Bos, LitCI(<<"T","e","l","e","v","i","s","i","o","n">>), Eos>>,
           <<Bos, LitCI(<<"S","e","r","i","e","s">>), Eos>>,
           <<Bos, Lit(<<ChDian, ChShi, ChJu>>), Eos>>,
           <<Bos, Lit(<<ChJu, ChJie>>), Eos>> >>],
     [type |-> "documentaries", pattern |->
        << <<Bos, LitCI(<<"D","o","c","u","m","e","n","t","a","r","i","e">>), Rep({"s", "S"}, 0, 1), Eos>>,
           <<Bos, Lit(<<ChJiDoc, ChLu, ChPian>>), Eos>> >>],
     [type |-> "anime", pattern |->
        << <<Bos, LitCI(<<"A","n","i","m","e">>), Eos>>,
           <<Bos, Lit(<<ChDong, ChMan>>), Eos>>,
           <<Bos, Lit(<<ChDong, ChHua>>), Eos>> >>] >>

\* _shouldIgnoreDirectory
shouldIgnoreDirectory(config, dirName) ==
  \E k \in 1..Len(config.ignoreDirs) :
    Includes(LowerCase(dirName), LowerCase(config.ignoreDirs[k]))

\* _classifyDirectory
RECURSIVE classifyFrom(_, _)
classifyFrom(dirName, k) ==
  IF k > Len(specialDirs) THEN "content"
  ELSE IF Test(dirName, specialDirs[k].pattern) THEN specialDirs[k].type
  ELSE classifyFrom(dirName, k + 1)
classifyDirectory(dirName) == Bind(dirName, LAMBDA d : classifyFrom(d, 1))

\* String.prototype.lastIndexOf('.') as a 1-based position, 0 when absent
LastDot(s) ==
  Bind({i \in 1..Len(s) : s[i] = "."}, LAMBDA dots :
    IF dots = {} THEN 0 ELSE CHOOSE i \in dots : \A j \in dots : j <= i)

\* _isVideoFile: substring(lastIndexOf('.')), the whole name when it has no dot
isVideoFilePA(filename) ==
  Bind(LowerCase(filename), LAMBDA lower :
    Bind(LastDot(filename), LAMBDA dot :
      (IF dot = 0 THEN lower ELSE SubSeq(lower, dot, Len(lower)))
        \in videoExtensions))

\* _analyzeDirectoryType
analyzeDirectoryType(pathInfo) ==
  Bind(<<Cardinality({i \in 1..Len(pathInfo.videoFiles) :
            pathInfo.videoFiles[i].metadata.type = "movie"}),
         Cardinality({i \in 1..Len(pathInfo.videoFiles) :
            pathInfo.videoFiles[i].metadata.type = "episode"}),
         Cardinality({i \in 1..Len(pathInfo.subdirectories) :
            pathInfo.subdirectories[i].type = "seasons"}),
         Cardinality({i \in 1..Len(pathInfo.subdirectories) :
            pathInfo.subdirectories[i].type = "movies"})>>, LAMBDA n :
    IF Len(pathInfo.videoFiles) > 0 /\ n[1] > 0 /\ n[2] = 0
    THEN "movie_collection"
    ELSE IF Len(pathInfo.videoFiles) > 0 /\ n[2] > 0 /\ n[1] = 0
    THEN "tv_season"
    ELSE IF Len(pathInfo.videoFiles) > 0 /\ n[1] > 0 /\ n[2] > 0
    THEN "mixed_content"
    ELSE IF Len(pathInfo.subdirectories) > 0 /\ Len(pathInfo.videoFiles) = 0
    THEN IF n[3] > 0 THEN "tv_show"
         ELSE IF n[4] > 0 THEN "movie_library"
         ELSE "content_library"
    ELSE "unknown")

\* _categorizeDirectory: the categories with pathInfo pushed
categorizeDirectory(pathInfo, categories) ==
  IF pathInfo.type \in {"movie_collection", "movie_library"}
  THEN [categories EXCEPT !.movies = Append(@, pathInfo)]
  ELSE IF pathInfo.type \in {"tv_season", "tv_show"}
  THEN [categories EXCEPT !.tvShows = Append(@, pathInfo)]
  ELSE IF pathInfo.type = "mixed_content"
  THEN [categories EXCEPT !.mixed = Append(@, pathInfo)]
  ELSE [categories EXCEPT !.unknown = Append(@, pathInfo)]

\* _calculateStatistics; avgFilesPerDir is the quotient num / den
calculateStatistics(analysis) ==
  Spread(analysis.statistics,
    [avgFilesPerDir |->
       IF analysis.statistics.totalDirectories > 0
       THEN [num |-> analysis.statistics.totalFiles,
             den |-> analysis.statistics.totalDirectories]
       ELSE analysis.statistics.avgFilesPerDir,
     movieDirectories |-> Len(analysis.categories.movies),
     tvDirectories |-> Len(analysis.categories.tvShows),
     mixedDirectories |-> Len(analysis.categories.mixed),
     unknownDirectories |-> Len(analysis.categories.unknown)])

\* _determineStructureType
determineStructureType(analysis) ==
  IF Len(analysis.categories.mixed) > 0 THEN "mixed"
  ELSE IF Len(analysis.categories.movies) > 0
          /\ Len(analysis.categories.tvShows) > 0 THEN "categorized"
  ELSE IF Len(analysis.categories.movies) > 0 THEN "movies_only"
  ELSE IF Len(analysis.categories.tvShows) > 0 THEN "tv_only"
  ELSE IF Len(analysis.categories.unknown) > 0 THEN "unstructured"
  ELSE "empty"

\* the analysis object analyzePath starts from
NewAnalysis(rootPath) ==
  [rootPath |-> rootPath, structure |-> "unknown", depth |-> 0,
   categories |-> [movies |-> <<>>, tvShows |-> <<>>, mixed |-> <<>>,
                   unknown |-> <<>>],
   pathMap |-> <<>>,
   statistics |-> [totalDirectories |-> 0, totalFiles |-> 0, maxDepth |-> 0,
                   avgFilesPerDir |-> [num |-> 0, den |-> 1]]]

\* the pathInfo _analyzeRecursive starts from
NewPathInfo(currentPath, depth) ==
  [path |-> currentPath, depth |-> depth, type |-> "unknown", items |-> <<>>,
   videoFiles |-> <<>>, subdirectories |-> <<>>]

\* the body of the loop of _analyzeRecursive for one item that is not an
\* ignored directory: pathInfo after the pushes
visitItem(pathInfo, item, currentPath) ==
  IF item.is_dir
  THEN [pathInfo EXCEPT !.subdirectories =
          Append(@, [name |-> item.name,
                     path |-> PathJoin(currentPath, item.name),
                     type |-> classifyDirectory(item.name)])]
  ELSE IF isVideoFilePA(item.name)
  THEN [pathInfo EXCEPT
          !.items = Append(@, item),
          !.videoFiles =
             Append(@, Spread(item,
                         [path |-> PathJoin(currentPath, item.name),
                          metadata |-> analyzeFileName(item.name)]))]
  ELSE [pathInfo EXCEPT !.items = Append(@, item)]

\* the end of _analyzeRecursive: the type, the category and pathMap.set
recordDirectory(analysis, pathInfo) ==
  Bind([pathInfo EXCEPT !.type = analyzeDirectoryType(pathInfo)], LAMBDA info :
    [analysis EXCEPT
       !.categories = categorizeDirectory(info, @),
       !.pathMap = MapSet(@, info.path, info)])

\* AlistAPI._getFiles as _analyzeRecursive sees it.  The outcome of the
\* request is "ok" (content is the listing), "null" (content is null),
\* "error" (the request fails: the catch of _getFiles returns []) or
\* "throw" (the login fails: _getFiles throws)
Outcomes == {"ok", "null", "error", "throw"}
getFiles(outcome, entries) ==
  IF outcome = "ok" THEN [kind |-> "items", items |-> entries]
  ELSE IF outcome = "null" THEN [kind |-> "null", items |-> <<>>]
  ELSE IF outcome = "error" THEN [kind |-> "items", items |-> <<>>]
  ELSE [kind |-> "throws", items |-> <<>>]

\* the catch of _analyzeRecursive rethrows nothing; CatchPropagates is the
\* walk without that try/catch
CatchPropagates(answer) ==
  IF answer.kind = "throws" THEN "raise"
  ELSE IF answer.kind = "null" \/ Len(answer.items) = 0 THEN "return"
  ELSE "proceed"

\* what _analyzeRecursive does with the answer of listDirectory: "return"
\* (the catch logs, or !items || items.length === 0) or "proceed"
afterListing(answer) ==
  IF answer.kind = "throws" THEN "return"
  ELSE IF answer.kind = "null" \/ Len(answer.items) = 0 THEN "return"
  ELSE "proceed"

\* depth > this.config.maxDepth; DepthGuardLate is the guard off by one
DepthGuardLate(depth, config) == depth > config.maxDepth + 1
depthExceeded(depth, config) == depth > config.maxDepth

\* a listing entry of the walked service: a file, a directory with its
\* entries, or a directory that lists a directory like itself, without end
File(name) ==
  [name |-> name, is_dir |-> FALSE, children |-> <<>>, endless |-> FALSE]
Dir(name, children) ==
  [name |-> name, is_dir |-> TRUE, children |-> children, endless |-> FALSE]
Endless(name) ==
  [name |-> name, is_dir |-> TRUE, children |-> <<>>, endless |-> TRUE]

\* the entries of the directory reached from `entries` by segs[i..]
RECURSIVE WalkDescend(_, _, _)
WalkDescend(entries, segs, i) ==
  IF i > Len(segs) THEN entries
  ELSE Bind({j \in 1..Len(entries) :
               entries[j].name = segs[i] /\ entries[j].is_dir}, LAMBDA hit :
         IF hit = {} THEN <<>>
         ELSE Bind(entries[MinSet(hit)], LAMBDA e :
                WalkDescend(IF e.endless THEN <<e>> ELSE e.children,
                            segs, i + 1)))

\* the listing the service holds for `path` under the root
walkListing(root, tree, path) ==
  Bind(<<Split(root), Split(path)>>, LAMBDA sp :
    Bind(WalkDescend(tree, sp[2], Len(sp[1]) + 1), LAMBDA es :
      [i \in 1..Len(es) |-> Item(es[i])]))

(***************************************************************************)
(* State                                                                   *)
(***************************************************************************)
VARIABLES
  pName,      \* parsers: the file name handed to the parsers
  pCD,        \* parsers: <<result>> of ContentDetector.extractSeasonEpisode
  pPA,        \* parsers: <<metadata>> of PathAnalyzer._analyzeFileName
  dRoot,      \* detectAndAnalyze: pathConfig.path of the configured root
  dTree,      \* the listing service's tree under dRoot
  dPc,        \* detectAndAnalyze: "start", "items", "merge", "done"
  dItems,     \* _analyzePathWithConfig: items, the listing of the root
  dIdx,       \* _analyzePathWithConfig: index of the next item of the loop
  dMovies,    \* _analyzePathWithConfig: movies
  dTvShows,   \* _analyzePathWithConfig: tvShows
  dPaths,     \* detectAndAnalyze: results.paths (each one's organized lists)
  dOrgMovies, \* detectAndAnalyze: results.organized.movies
  dOrgTv,     \* detectAndAnalyze: results.organized.tvShows
  dTmdb,      \* detectAndAnalyze: whether options.tmdbApi is given
  tCatalog,   \* the catalogue of the TMDb service
  gPc,        \* generateSmartMovieData: "detect", "details", "written", ...
  gMovies,    \* generateSmartMovieData: detectedMovies
  gTvShows,   \* generateSmartMovieData: detectedTvShows
  gIdx,       \* index of the next item of the two loops that fill movieMap
  gMap,       \* movieMap
  gFresh,     \* how many unknown_ ids have been made
  gFinalMovies, \* finalCorrectedMovies
  gFinalTv,   \* finalCorrectedTvShows
  gContent,   \* enrichedContent as written to movies.json
  wPc,        \* analyzePath: "start", "walk", "done", "raised"
  wConfig,    \* PathAnalyzer: this.config
  wTree,      \* the listing service's tree under the walked root
  wStack,     \* the calls of _analyzeRecursive in progress, innermost last
  wAnalysis,  \* analyzePath: analysis
  wListed,    \* the calls of listDirectory made so far, with their outcome
  cPresets,   \* ConfigManager: this.presets, in insertion order
  cCurrent,   \* ConfigManager: this.currentConfig
  cRet,       \* the last call on the ConfigManager and what it returned
  cLastSet,   \* the name of the last setCurrentConfig that returned true
  cPathConfig, \* the detection_config of the analysed path, <<>> when unset
  cName,      \* the file name the detector of the path is asked about
  cSeen,      \* <<what that detector answered>>
  aInitialized, \* TMDbAPI: this.initialized
  aGenreCache,  \* TMDbAPI: this.genreCache
  aCalls,     \* TMDbAPI: the calls of initialize, each with its position
  aAllFailed, \* whether every request sent so far was rejected
  nName,      \* titles: the name handed to the title extractors
  nCD,        \* titles: <<result>> of ContentDetector.extractTitle
  nPA,        \* titles: <<result>> of PathAnalyzer._extractTitle
  nTwice,     \* titles: <<result>> of extractTitle on its own result
  lPc,        \* generateMovieData: "idle" between runs, "groups" in the loop
  lCatalog,   \* generateMovieData: the catalogue of the TMDb service
  lVideoFiles, \* generateMovieData: videoFiles
  lGroupedFiles, \* generateMovieData: groupedFiles
  lIdx,       \* generateMovieData: index of the next group of the loop
  lMovieMap,  \* generateMovieData: movieMap
  lClock,     \* how many unknown_ ids Date.now() and Math.random() have made
  lJson,      \* data/movies.json: <<>> while missing, else <<its content>>
  lBefore,    \* data/movies.json as the latest run found it
  lRuns,      \* the videoFiles of the runs of generateMovieData so far
  yPc,        \* the player page: "loaded" (the record is read), "ready"
  currentMovie, \* the player page: currentMovie
  currentEpisode, \* the player page: currentEpisode, <<>> for null
  currentSource, \* the player page: currentSource, <<>> for null
  yItems,     \* the elements of the lists of the page a click can land on
  yActive,    \* the element that is active, 0 for none
  yPlayed,    \* the urls handed to the player by loadVideo, in order
  yLast,      \* the handler that ran last: "load", "default", "click", "next"
  yBefore,    \* currentEpisode as the last click or playNext found it
  yClicks     \* how many clicks on an element have been handled

parseVars == <<pName, pCD, pPA>>
detectVars == <<dRoot, dTree, dPc, dItems, dIdx, dMovies, dTvShows, dPaths,
                dOrgMovies, dOrgTv, dTmdb, tCatalog>>
genVars == <<gPc, gMovies, gTvShows, gIdx, gMap, gFresh, gFinalMovies,
             gFinalTv, gContent>>
walkVars == <<wPc, wConfig, wTree, wStack, wAnalysis, wListed>>
vars == <<pName, pCD, pPA, dRoot, dTree, dPc, dItems, dIdx, dMovies,
          dTvShows, dPaths, dOrgMovies, dOrgTv, dTmdb, tCatalog, gPc, gMovies,
          gTvShows, gIdx, gMap, gFresh, gFinalMovies, gFinalTv, gContent,
          wPc, wConfig, wTree, wStack, wAnalysis, wListed,
          cPresets, cCurrent, cRet, cLastSet, cPathConfig, cName, cSeen,
          aInitialized, aGenreCache, aCalls, aAllFailed,
          nName, nCD, nPA, nTwice,
          lPc, lCatalog, lVideoFiles, lGroupedFiles, lIdx, lMovieMap,
          lClock, lJson, lBefore, lRuns,
          yPc, currentMovie, currentEpisode, currentSource, yItems, yActive,
          yPlayed, yLast, yBefore, yClicks>>
confVars == <<cPresets, cCurrent, cRet, cLastSet, cPathConfig, cName, cSeen>>
tmdbVars == <<aInitialized, aGenreCache, aCalls, aAllFailed>>
titleVars == <<nName, nCD, nPA, nTwice>>
legacyVars == <<lPc, lCatalog, lVideoFiles, lGroupedFiles, lIdx, lMovieMap,
                lClock, lJson, lBefore, lRuns>>
playerVars == <<yPc, currentMovie, currentEpisode, currentSource, yItems,
                yActive, yPlayed, yLast, yBefore, yClicks>>
restVars == <<tmdbVars, titleVars, legacyVars, playerVars>>
besidesTmdb == <<titleVars, legacyVars, playerVars>>
besidesTitle == <<tmdbVars, legacyVars, playerVars>>
besidesLegacy == <<tmdbVars, titleVars, playerVars>>
besidesPlayer == <<tmdbVars, titleVars, legacyVars>>

\* the variables of a component that is not running
IdleParse == pName = <<>> /\ pCD = <<>> /\ pPA = <<>>
IdleDetect ==
  /\ dRoot = <<>> /\ dTree = <<>> /\ dPc = "idle" /\ dItems = <<>>
  /\ dIdx = 0 /\ dMovies = <<>> /\ dTvShows = <<>> /\ dPaths = <<>>
  /\ dOrgMovies = <<>> /\ dOrgTv = <<>> /\ dTmdb = FALSE /\ tCatalog = <<>>
IdleGen ==
  /\ gPc = "idle" /\ gMovies = <<>> /\ gTvShows = <<>> /\ gIdx = 0
  /\ gMap = <<>> /\ gFresh = 0 /\ gFinalMovies = <<>> /\ gFinalTv = <<>>
  /\ gContent = <<>>
IdleWalk ==
  /\ wPc = "idle" /\ wConfig = <<>> /\ wTree = <<>> /\ wStack = <<>>
  /\ wAnalysis = <<>> /\ wListed = <<>>
IdleConf ==
  /\ cPresets = <<>> /\ cCurrent = "" /\ cRet = <<>> /\ cLastSet = ""
  /\ cPathConfig = <<>> /\ cName = <<>> /\ cSeen = <<>>
IdleTmdb ==
  /\ aInitialized = FALSE /\ aGenreCache = <<>> /\ aCalls = <<>>
  /\ aAllFailed = TRUE
IdleTitle == nName = <<>> /\ nCD = <<>> /\ nPA = <<>> /\ nTwice = <<>>
IdleLegacy ==
  /\ lPc = "off" /\ lCatalog = <<>> /\ lVideoFiles = <<>>
  /\ lGroupedFiles = <<>> /\ lIdx = 0 /\ lMovieMap = <<>> /\ lClock = 0
  /\ lJson = <<>> /\ lBefore = <<>> /\ lRuns = <<>>
IdlePlayer ==
  /\ yPc = "off" /\ currentMovie = <<>> /\ currentEpisode = <<>>
  /\ currentSource = <<>> /\ yItems = <<>> /\ yActive = 0 /\ yPlayed = <<>>
  /\ yLast = "" /\ yBefore = <<>> /\ yClicks = 0
IdleRest == IdleTmdb /\ IdleTitle /\ IdleLegacy /\ IdlePlayer
IdleBesidesTmdb == IdleTitle /\ IdleLegacy /\ IdlePlayer
IdleBesidesTitle == IdleTmdb /\ IdleLegacy /\ IdlePlayer
IdleBesidesLegacy == IdleTmdb /\ IdleTitle /\ IdlePlayer
IdleBesidesPlayer == IdleTmdb /\ IdleTitle /\ IdleLegacy

(***************************************************************************)
(* The parsers on one file name                                            *)
(***************************************************************************)
\* numbers as they are written in file names
NumStrs ==
  { <<"1">>, <<"0","2">>, <<"5","0">>, <<"5","1">>, <<"9","9">>,
    <<"2","0","0">>, <<"2","0","1">>, <<"2","5","0">> }

Stems == { <<>>, <<"S","h","o","w",".">> }
ExtMkv == <<".","m","k","v">>

\* the season/episode notations the patterns are written for
Markers ==
  UNION { { <<"S">> \o n \o <<"E">> \o m,
            n \o <<"x">> \o m,
            <<ChDi>> \o n \o <<ChJi, ChDi>> \o m \o <<ChJie>>,
            <<"[">> \o n \o <<"]","[">> \o m \o <<"]">>,
            <<"S","e","a","s","o","n"," ">> \o n
               \o <<" ","E","p","i","s","o","d","e"," ">> \o m,
            <<"E">> \o m,
            <<"E","P">> \o m,
            <<ChDi>> \o m \o <<ChJie>>,
            m \o <<"p">> } : n \in NumStrs, m \in NumStrs }
    \cup { <<"M","o","v","i","e">> }

FileNames == { s \o k \o ExtMkv : s \in Stems, k \in Markers }

InitParse ==
  /\ pName \in FileNames
  /\ pCD = <<>>
  /\ pPA = <<>>
  /\ IdleDetect
  /\ IdleGen
  /\ IdleWalk
  /\ IdleConf
  /\ IdleRest

\* ContentDetector.extractSeasonEpisode(pName)
ExtractSeasonEpisode ==
  /\ pCD = <<>>
  /\ pCD' = <<extractSeasonEpisode(pName)>>
  /\ UNCHANGED <<pName, pPA>>
  /\ UNCHANGED <<detectVars, genVars, walkVars, confVars, restVars>>

\* PathAnalyzer._analyzeFileName(pName)
AnalyzeFileName ==
  /\ pPA = <<>>
  /\ pPA' = <<analyzeFileName(pName)>>
  /\ UNCHANGED <<pName, pCD>>
  /\ UNCHANGED <<detectVars, genVars, walkVars, confVars, restVars>>

NextParse == ExtractSeasonEpisode \/ AnalyzeFileName

SpecParse == InitParse /\ [][NextParse]_vars

\* a season / episode number within the range guard (null passes)
InRange(r) == r.season <= MaxSeason /\ r.episode <= MaxEpisode

\* C2: neither ContentDetector.extractSeasonEpisode nor
\* PathAnalyzer._analyzeFileName ever reports a season above 50 or an
\* episode above 200.
C2_ParsersWithinRange ==
  /\ pCD # <<>> => InRange(pCD[1])
  /\ pPA # <<>> => InRange(pPA[1])

\* the half of C2 that is ContentDetector's
C2_ContentDetectorWithinRange == pCD # <<>> => InRange(pCD[1])

(***************************************************************************)
(* SmartDetector.detectAndAnalyze on one configured root                   *)
(***************************************************************************)
F(name) == [name |-> name, is_dir |-> FALSE, children |-> <<>>]
D(name, children) == [name |-> name, is_dir |-> TRUE, children |-> children]

NameShowLc   == <<"s","h","o","w">>
NameSeason01 == <<"S","e","a","s","o","n"," ","0","1">>
NameSeason02 == <<"S","e","a","s","o","n"," ","0","2">>
NameSeason1  == <<"S","e","a","s","o","n"," ","1">>
NameS01      == <<"S","0","1">>
NameS00      == <<"S","0","0">>
NameAvatar   == <<"A","v","a","t","a","r"," ","(","2","0","0","9",")">>

\* Show/Season 01 (two episodes), Show/Season 02 (one episode)
ShowEntry ==
  D(NameShow,
    << D(NameSeason01,
         << F(NameShow \o <<".","S","0","1","E","0","1">> \o ExtMkv),
            F(NameShow \o <<".","S","0","1","E","0","2">> \o ExtMkv) >>),
       D(NameSeason02,
         << F(NameShow \o <<".","S","0","2","E","0","1">> \o ExtMkv) >>) >>)

\* the entries a root listing is made of
TopEntries ==
  { ShowEntry,
    D(NameS01, << F(<<"S","0","1","E","0","2">> \o ExtMkv),
                  F(<<"S","0","1","E","0","1">> \o ExtMkv) >>),
    D(NameS00, << F(<<"S","0","0","E","0","1">> \o ExtMkv) >>),
    D(NameSeason1, << F(<<"E","0","1">> \o ExtMkv),
                      F(<<"E","0","2">> \o ExtMkv) >>),
    D(NameShowLc, << F(NameShowLc \o <<".","S","0","1","E","0","3">> \o ExtMkv) >>),
    D(NameAvatar,
      << F(<<"A","v","a","t","a","r",".","2","0","0","9",".","1","0","8","0","p">>
             \o ExtMkv) >>),
    F(<<"M","o","v","i","e">> \o ExtMkv),
    F(NameShow \o <<".","S","0","1","E","0","2">> \o ExtMkv),
    F(<<"n","o","t","e","s",".","t","x","t">>) }

\* how many entries a root listing has at most
MaxRootItems == 2

\* the listings: sequences of distinct entries, in any order
RootListings ==
  UNION { { s \in [1..n -> TopEntries] :
              \A i, j \in 1..n : i # j => s[i] # s[j] } : n \in 1..MaxRootItems }

\* "/tv" and "/tv/Show"
RootTv == <<"/","t","v">>
RootPaths == { RootTv, PathJoin(RootTv, NameShow) }

InitDetect ==
  /\ dRoot \in RootPaths
  /\ dTree \in RootListings
  /\ dPc = "start"
  /\ dItems = <<>>
  /\ dIdx = 0
  /\ dMovies = <<>>
  /\ dTvShows = <<>>
  /\ dPaths = <<>>
  /\ dOrgMovies = <<>>
  /\ dOrgTv = <<>>
  /\ dTmdb = FALSE
  /\ tCatalog = <<>>
  /\ IdleParse
  /\ IdleGen
  /\ IdleWalk
  /\ IdleConf
  /\ IdleRest

\* _analyzePathWithConfig: await alistApi.listDirectory(pathConfig.path)
ListRoot ==
  /\ dPc = "start"
  /\ dItems' = listDirectory(dRoot, dTree, dRoot)
  /\ dIdx' = 1
  /\ dPc' = "items"
  /\ UNCHANGED <<dTmdb, tCatalog, dRoot, dTree, dMovies, dTvShows, dPaths,
                 dOrgMovies, dOrgTv>>
  /\ UNCHANGED <<parseVars, genVars, walkVars, confVars, restVars>>

\* _analyzePathWithConfig: one turn of the loop over items, a directory
AnalyzeDirItem ==
  /\ dPc = "items"
  /\ dIdx <= Len(dItems)
  /\ dItems[dIdx].is_dir
  /\ \E subResult \in {analyzeSubdirectory(dRoot, dTree, dItems[dIdx], dRoot)} :
       /\ dMovies' = IF subResult.type = "movie"
                     THEN Append(dMovies, subResult.content) ELSE dMovies
       /\ dTvShows' = IF subResult.type = "tvshow"
                      THEN Append(dTvShows, subResult.content) ELSE dTvShows
  /\ dIdx' = dIdx + 1
  /\ UNCHANGED <<dTmdb, tCatalog, dRoot, dTree, dPc, dItems, dPaths,
                 dOrgMovies, dOrgTv>>
  /\ UNCHANGED <<parseVars, genVars, walkVars, confVars, restVars>>

\* _analyzePathWithConfig: one turn of the loop over items, a file
AnalyzeFileItem ==
  /\ dPc = "items"
  /\ dIdx <= Len(dItems)
  /\ ~dItems[dIdx].is_dir
  /\ \E item \in {dItems[dIdx]} :
     \E video \in {isVideoFile(item.name)} :
     \E fileType \in {analyzeFile(item).type} :
        /\ dMovies' = IF video /\ fileType = "movie"
                      THEN Append(dMovies, movieFileCandidate(item, dRoot))
                      ELSE dMovies
        /\ dTvShows' = IF video /\ fileType = "episode"
                       THEN Append(dTvShows, episodeFileCandidate(item, dRoot))
                       ELSE dTvShows
  /\ dIdx' = dIdx + 1
  /\ UNCHANGED <<dTmdb, tCatalog, dRoot, dTree, dPc, dItems, dPaths,
                 dOrgMovies, dOrgTv>>
  /\ UNCHANGED <<parseVars, genVars, walkVars, confVars, restVars>>

\* the end of _analyzePathWithConfig and the accumulation in detectAndAnalyze
FinishPath ==
  /\ dPc = "items"
  /\ dIdx > Len(dItems)
  /\ dPaths' = Append(dPaths, [path |-> dRoot,
                               organized |-> [movies |-> dMovies,
                                              tvShows |-> dTvShows]])
  /\ dOrgMovies' = dOrgMovies \o dMovies
  /\ dOrgTv' = dOrgTv \o dTvShows
  /\ dPc' = "merge"
  /\ UNCHANGED <<dTmdb, tCatalog, dRoot, dTree, dItems, dIdx, dMovies,
                 dTvShows>>
  /\ UNCHANGED <<parseVars, genVars, walkVars, confVars, restVars>>

\* detectAndAnalyze: results.organized.tvShows = _mergeTvSeasons(...)
MergeTvSeasons ==
  /\ dPc = "merge"
  /\ dOrgTv' = IF Len(dOrgTv) > 0 THEN mergeTvSeasons(dOrgTv) ELSE dOrgTv
  /\ dPc' = IF dTmdb THEN "enrich" ELSE "done"
  /\ UNCHANGED <<dTmdb, tCatalog, dRoot, dTree, dItems, dIdx, dMovies,
                 dTvShows, dPaths,
                 dOrgMovies>>
  /\ UNCHANGED <<parseVars, genVars, walkVars, confVars, restVars>>

NextDetect ==
  \/ ListRoot
  \/ AnalyzeDirItem
  \/ AnalyzeFileItem
  \/ FinishPath
  \/ MergeTvSeasons

SpecDetect == InitDetect /\ [][NextDetect]_vars

(***************************************************************************)
(* Properties of detectAndAnalyze                                          *)
(***************************************************************************)
\* the tv Candidates of the root before the merge, and the merged series
Candidates == IF dPaths = <<>> THEN <<>> ELSE dPaths[1].organized.tvShows
Detected == dPc = "done"

\* the merged series that took the candidate c in (by its path)
SeriesOf(c) ==
  dOrgTv[CHOOSE i \in 1..Len(dOrgTv) :
           \E j \in 1..Len(dOrgTv[i].paths) : dOrgTv[i].paths[j] = c.path]

\* the video files directly in a listing entry, as paths under `parent`
EpisodePathsOf(entry, parent) ==
  { PathJoin(parent, entry.children[i].name) :
      i \in {k \in 1..Len(entry.children) :
               ~entry.children[k].is_dir /\ isVideoFile(entry.children[k].name)} }

\* C1: a root that holds Show/Season 01 (two episodes) and Show/Season 02
\* (one episode) yields, once detectAndAnalyze is done, exactly one tv
\* Candidate for Show, with one SeasonFragment per season folder, each
\* holding exactly the episode files of its folder.
C1_OneFragmentPerSeasonFolder ==
  (Detected /\ \E i \in 1..Len(dTree) : dTree[i] = ShowEntry) =>
    LET showPath == PathJoin(dRoot, NameShow)
        mine == {k \in 1..Len(Candidates) : Candidates[k].path = showPath}
    IN /\ Cardinality(mine) = 1
       /\ \A k \in mine :
            LET c == Candidates[k] IN
            /\ Len(c.seasons) = Len(ShowEntry.children)
            /\ \A n \in 1..Len(ShowEntry.children) :
                 LET folder == ShowEntry.children[n] IN
                 \E f \in 1..Len(c.seasons) :
                   /\ c.seasons[f].season = matchSeasonFolder(folder.name)[1].season
                   /\ {c.seasons[f].episodes[e].path :
                         e \in 1..Len(c.seasons[f].episodes)}
                        = EpisodePathsOf(folder, PathJoin(showPath, folder.name))

\* C3: the episodes of every SeasonFragment that _getSeasonEpisodes built
\* are in ascending order of episode number, whatever the listing order.
C3_EpisodesAscending ==
  \A k \in 1..Len(dTvShows) : \A f \in 1..Len(dTvShows[k].seasons) :
    LET eps == dTvShows[k].seasons[f].episodes IN
    \A i, j \in 1..Len(eps) :
      (i < j /\ "episode_number" \in DOMAIN eps[i]
             /\ "episode_number" \in DOMAIN eps[j])
        => eps[i].episode_number <= eps[j].episode_number

\* C4: after _mergeTvSeasons no merged series has two SeasonFragments with
\* the same season number.
C4_NoDuplicateSeason ==
  Detected =>
    \A s \in 1..Len(dOrgTv) : \A i, j \in 1..Len(dOrgTv[s].seasons) :
      i # j => dOrgTv[s].seasons[i].season # dOrgTv[s].seasons[j].season

\* the grouping key of C5: case-folded, with whitespace and
\* every character that is neither alphanumeric nor CJK removed
NormalizedName(s) ==
  FilterSeq(LowerCase(s), LAMBDA c : c \in Lower \cup Digit \cup CJK)

\* C5: _mergeTvSeasons puts two candidates in one group whenever their
\* series names are equal after case-folding, whitespace stripping and
\* stripping of non-alphanumeric-non-CJK characters.
C5_GroupedByNormalizedName ==
  Detected =>
    \A a, b \in 1..Len(Candidates) :
      NormalizedName(extractSeriesName(Candidates[a]))
          = NormalizedName(extractSeriesName(Candidates[b]))
        => SeriesOf(Candidates[a]) = SeriesOf(Candidates[b])

\* the candidates a merged series was made of
MembersOf(series) ==
  {k \in 1..Len(Candidates) : SeriesOf(Candidates[k]) = series}

\* C6: candidates of one group whose season numbers (any number from 0 up)
\* are pairwise different merge into one series whose seasons list has as
\* many fragments as the candidates had in total, in ascending season order.
C6_DisjointSeasonsMergeAscending ==
  Detected =>
    \A s \in 1..Len(dOrgTv) :
      LET series == dOrgTv[s]
          members == MembersOf(series)
          frags == UNION { {<<k, f>> : f \in 1..Len(Candidates[k].seasons)} :
                           k \in members }
          seasonOf(kf) == Candidates[kf[1]].seasons[kf[2]].season
      IN (\A x, y \in frags : x # y => seasonOf(x) # seasonOf(y)) =>
           /\ Len(series.seasons) = Cardinality(frags)
           /\ \A i, j \in 1..Len(series.seasons) :
                i < j => series.seasons[i].season < series.seasons[j].season

\* the nearest segment above the last one of `path` that is no season marker
RECURSIVE AncestorFrom(_, _)
AncestorFrom(parts, i) ==
  IF i < 1 THEN <<>>
  ELSE IF parts[i] # <<>> /\ matchSeasonFolder(parts[i]) = <<>> THEN parts[i]
  ELSE AncestorFrom(parts, i - 1)
NearestNonSeasonAncestor(path) ==
  LET parts == Split(path) IN AncestorFrom(parts, Len(parts) - 1)

\* C7: a candidate whose title is a bare season marker (a name the season
\* folder patterns accept: S01, S1, Season 1, ...) gets as its series name
\* the nearest path segment above it that is not itself a season marker.
C7_BareSeasonTakesAncestorName ==
  Detected =>
    \A k \in 1..Len(Candidates) :
      matchSeasonFolder(Candidates[k].title) # <<>> =>
        SeriesOf(Candidates[k]).title
          = NearestNonSeasonAncestor(Candidates[k].path)

(***************************************************************************)
(* generateSmartMovieData on one configured root, from the listing to the  *)
(* catalog written to movies.json                                          *)
(***************************************************************************)
\* Show/ with two episodes, Show.mkv, Dark/ without a video, Dark.mkv,
\* Dark.S01E02.mkv, Dark/ with the one file E05.mkv, notes.txt
PipelineEntries ==
  { D(NameShow,
      << F(NameShow \o <<".","S","0","1","E","0","1">> \o ExtMkv),
         F(NameShow \o <<".","S","0","1","E","0","2">> \o ExtMkv) >>),
    F(NameShow \o ExtMkv),
    D(NameDark, <<>>),
    F(NameDark \o ExtMkv),
    F(NameDark \o <<".","S","0","1","E","0","2">> \o ExtMkv),
    D(NameDark, << F(<<"E","0","5">> \o ExtMkv) >>),
    D(NameDark,
      << F(NameDark \o <<".","S","0","1","E","0","1">> \o ExtMkv),
         F(NameDark \o <<".","S","0","1","E","0","3">> \o ExtMkv) >>),
    F(<<"n","o","t","e","s",".","t","x","t">>) }

\* the listings: sequences of entries with distinct names, in any order
PipelineListings ==
  UNION { { s \in [1..n -> PipelineEntries] :
              \A i, j \in 1..n : i # j => s[i].name # s[j].name } :
          n \in 1..MaxRootItems }

\* what TMDb may know: a film and a series called Show, a series without
\* seasons and a film called Dark; the ids of films and of series are
\* numbered apart, so a film and a series can have the same id
CatalogPool ==
  << [id |-> 1, media_type |-> "movie", title |-> NameShow, popularity |-> 5,
      number_of_seasons |-> 0],
     [id |-> 1, media_type |-> "tv", title |-> NameShow, popularity |-> 9,
      number_of_seasons |-> 1],
     [id |-> 1, media_type |-> "tv", title |-> NameDark, popularity |-> 3,
      number_of_seasons |-> 0],
     [id |-> 2, media_type |-> "movie", title |-> NameDark, popularity |-> 4,
      number_of_seasons |-> 0] >>

\* the catalogues: the entries of the pool the service has, in pool order
Catalogues ==
  { LET has(entry) == \E i \in S : CatalogPool[i] = entry
    IN FilterSeq(CatalogPool, has) : S \in SUBSET DOMAIN CatalogPool }

InitPipeline ==
  /\ dRoot = RootTv
  /\ dTree \in PipelineListings
  /\ dPc = "start"
  /\ dItems = <<>>
  /\ dIdx = 0
  /\ dMovies = <<>>
  /\ dTvShows = <<>>
  /\ dPaths = <<>>
  /\ dOrgMovies = <<>>
  /\ dOrgTv = <<>>
  /\ dTmdb = TRUE
  /\ tCatalog \in Catalogues
  /\ IdleParse
  /\ IdleWalk
  /\ IdleConf
  /\ IdleRest
  /\ gPc = "detect"
  /\ gMovies = <<>> /\ gTvShows = <<>> /\ gIdx = 0 /\ gMap = <<>>
  /\ gFresh = 0 /\ gFinalMovies = <<>> /\ gFinalTv = <<>> /\ gContent = <<>>

\* detectAndAnalyze: _enrichWithTmdbData(results.organized, options.tmdbApi)
EnrichWithTmdbData ==
  /\ dPc = "enrich"
  /\ dOrgMovies' = [i \in 1..Len(dOrgMovies) |->
                      smartMovie(dOrgMovies[i],
                                 searchMovie(tCatalog, dOrgMovies[i].title))]
  /\ dOrgTv' = [i \in 1..Len(dOrgTv) |->
                  smartTvShow(dOrgTv[i], searchTv(tCatalog, dOrgTv[i].title))]
  /\ dPc' = "done"
  /\ UNCHANGED <<dTmdb, tCatalog, dRoot, dTree, dItems, dIdx, dMovies,
                 dTvShows, dPaths>>
  /\ UNCHANGED <<parseVars, genVars, walkVars, confVars, restVars>>

\* generateSmartMovieData from the return of detectAndAnalyze to the check
\* for an empty result: the second merge and the two correction loops
PostProcess ==
  /\ gPc = "detect"
  /\ dPc = "done"
  /\ \E merged \in {IF Len(dOrgTv) > 0 THEN mergeTvSeasons(dOrgTv)
                    ELSE dOrgTv} :
       IF \E k \in 1..Len(merged) : correctTvThrows(merged[k])
       THEN /\ gPc' = "failed"
            /\ UNCHANGED <<gMovies, gTvShows, gIdx>>
       ELSE \E corrected \in {correctAll(dOrgMovies, merged, 1,
                                [movies |-> <<>>, tvShows |-> <<>>])} :
              /\ gMovies' = corrected.movies
              /\ gTvShows' = corrected.tvShows
              /\ gIdx' = 1
              /\ gPc' = IF Len(corrected.movies) = 0
                             /\ Len(corrected.tvShows) = 0
                        THEN "empty" ELSE "details"
  /\ UNCHANGED <<gMap, gFresh, gFinalMovies, gFinalTv, gContent>>
  /\ UNCHANGED <<parseVars, detectVars, walkVars, confVars, restVars>>

\* one turn of the loop over detectedMovies
MovieDetails ==
  /\ gPc = "details"
  /\ gIdx <= Len(gMovies)
  /\ \E tmdbInfo \in {getMediaDetails(tCatalog, gMovies[gIdx].title, "movie")} :
       /\ gMap' = putMovie(gMap, gMovies[gIdx], tmdbInfo, gFresh)
       /\ gFresh' = IF tmdbInfo = <<>> THEN gFresh + 1 ELSE gFresh
  /\ gIdx' = gIdx + 1
  /\ UNCHANGED <<gPc, gMovies, gTvShows, gFinalMovies, gFinalTv, gContent>>
  /\ UNCHANGED <<parseVars, detectVars, walkVars, confVars, restVars>>

\* one turn of the loop over detectedTvShows
TvDetails ==
  /\ gPc = "details"
  /\ gIdx > Len(gMovies)
  /\ gIdx <= Len(gMovies) + Len(gTvShows)
  /\ \E tvShow \in {gTvShows[gIdx - Len(gMovies)]} :
     \E tmdbInfo \in {getMediaDetails(tCatalog, tvShow.title, "tv")} :
       /\ gMap' = putTvShow(gMap, tvShow, tmdbInfo, gFresh)
       /\ gFresh' = IF tmdbInfo = <<>> THEN gFresh + 1 ELSE gFresh
  /\ gIdx' = gIdx + 1
  /\ UNCHANGED <<gPc, gMovies, gTvShows, gFinalMovies, gFinalTv, gContent>>
  /\ UNCHANGED <<parseVars, detectVars, walkVars, confVars, restVars>>

\* enrichedContent.sort(...) with order_by 'title' and order 'asc'
sortByTitle(content) ==
  Bind(<<content, [i \in 1..Len(content) |-> LowerCase(content[i].title)]>>,
       LAMBDA v :
    LET n == Len(v[1])
        pos(i) == 1 + Cardinality({j \in 1..n :
                    \/ StrLess(v[2][j], v[2][i])
                    \/ ~StrLess(v[2][i], v[2][j]) /\ j < i})
    IN [k \in 1..n |-> v[1][CHOOSE i \in 1..n : pos(i) = k]])

\* generateSmartMovieData after the loops: the split of movieMap into the
\* two corrected lists, the aggregation, the sort and the output
SplitAndAggregate ==
  /\ gPc = "details"
  /\ gIdx > Len(gMovies) + Len(gTvShows)
  /\ \E allContent \in {[i \in 1..Len(gMap) |-> gMap[i].value]} :
     \E finalMovies \in {FilterSeq(allContent, IsFinalMovie)} :
     \E finalTvShows \in {FilterSeq(allContent, IsFinalTvShow)} :
     \E fm \in {[i \in 1..Len(finalMovies) |-> correctedMovie(finalMovies[i])]} :
     \E ft \in {[i \in 1..Len(finalTvShows) |->
                   correctedTvShow(finalTvShows[i])]} :
     \E enrichedContent \in {aggregateSameNameContent(fm \o ft)} :
       /\ gFinalMovies' = fm
       /\ gFinalTv' = ft
       /\ gContent' = IF Len(enrichedContent) = 0 THEN <<>>
                      ELSE sortByTitle(enrichedContent)
       /\ gPc' = IF Len(enrichedContent) = 0 THEN "empty" ELSE "written"
  /\ UNCHANGED <<gMovies, gTvShows, gIdx, gMap, gFresh>>
  /\ UNCHANGED <<parseVars, detectVars, walkVars, confVars, restVars>>

NextPipeline ==
  \/ ListRoot
  \/ AnalyzeDirItem
  \/ AnalyzeFileItem
  \/ FinishPath
  \/ MergeTvSeasons
  \/ EnrichWithTmdbData
  \/ PostProcess
  \/ MovieDetails
  \/ TvDetails
  \/ SplitAndAggregate

SpecPipeline == InitPipeline /\ [][NextPipeline]_vars

(***************************************************************************)
(* Properties of the aggregation and of the split                          *)
(***************************************************************************)
\* the catalog has been written
Written == gPc = "written"

\* the list handed to aggregateSameNameContent, in discovery order
EnrichedContent == gFinalMovies \o gFinalTv

\* the (title, media type) keys of the list and the members of a key
GroupKeysOf == {groupKey(EnrichedContent[i]) : i \in 1..Len(EnrichedContent)}
GroupMembers(key) ==
  LET member(item) == groupKey(item) = key
  IN FilterSeq(EnrichedContent, member)

\* the entries of the written catalog
CatalogEntries == {gContent[i] : i \in 1..Len(gContent)}

\* the fields aggregateSameNameContent adds to the main entry of a group
AggregateFields == {"versions", "is_aggregated", "aggregated_count"}

NonEmptyList(o, field) == field \in DOMAIN o /\ Len(o[field]) > 0

\* the member the priority rule names: the first with files, else the first
\* with seasons, else the first
FirstWith(members, field) ==
  members[CHOOSE i \in 1..Len(members) :
            /\ NonEmptyList(members[i], field)
            /\ \A j \in 1..(i - 1) : ~NonEmptyList(members[j], field)]
PriorityMain(members) ==
  IF \E i \in 1..Len(members) : NonEmptyList(members[i], "files")
  THEN FirstWith(members, "files")
  ELSE IF \E i \in 1..Len(members) : NonEmptyList(members[i], "seasons")
  THEN FirstWith(members, "seasons")
  ELSE members[1]

\* C8: for every group of two or more entries with the same title and media
\* type, the aggregated entry of the written catalog is built on the member
\* the priority rule names (first with files, else first with seasons, else
\* first of the group), and that member is the version flagged is_main.
C8_MainVersionByPriority ==
  Written =>
    \A key \in GroupKeysOf :
      \E members \in {GroupMembers(key)} :
        Len(members) >= 2 =>
          \E main \in {PriorityMain(members)} :
          \E e \in CatalogEntries :
            /\ AggregateFields \subseteq DOMAIN e
            /\ Delete(e, AggregateFields) = main
            /\ e.versions[1].is_main
            /\ e.versions[1].id = main.id

\* a written catalog with a group whose first member has no files and whose
\* main version is a later member that has files
C8_Witness ==
  /\ Written
  /\ \E key \in GroupKeysOf :
       \E members \in {GroupMembers(key)} :
         /\ Len(members) >= 2
         /\ ~NonEmptyList(members[1], "files")
         /\ \E i \in 2..Len(members) : NonEmptyList(members[i], "files")
         /\ \E e \in CatalogEntries :
              /\ AggregateFields \subseteq DOMAIN e
              /\ Delete(e, AggregateFields) = PriorityMain(members)

\* C9: every aggregated entry has exactly one version with is_main = true,
\* that version is the selected main entry, the versions list has one
\* element per group member and aggregated_count is the number of members;
\* an entry whose (title, media type) key is unique passes unchanged and
\* unflagged.
C9_VersionsCoverGroup ==
  Written =>
    \A key \in GroupKeysOf :
      \E members \in {GroupMembers(key)} :
        IF Len(members) = 1
        THEN members[1] \in CatalogEntries
               /\ "is_aggregated" \notin DOMAIN members[1]
        ELSE \E e \in CatalogEntries :
               /\ AggregateFields \subseteq DOMAIN e
               /\ groupKey(e) = key
               /\ Cardinality({k \in 1..Len(e.versions) :
                                 e.versions[k].is_main}) = 1
               /\ \A k \in 1..Len(e.versions) :
                    e.versions[k].is_main => e.versions[k].id = e.id
               /\ Len(e.versions) = Len(members)
               /\ e.aggregated_count = Len(members)

\* C10: every record of finalCorrectedMovies has no seasons and no
\* episode_count field, and every record of finalCorrectedTvShows has
\* seasons and episode_count and no playable files of its own (files absent
\* or empty).
C10_SplitKeepsShapes ==
  Written =>
    /\ \A i \in 1..Len(gFinalMovies) :
         /\ "seasons" \notin DOMAIN gFinalMovies[i]
         /\ "episode_count" \notin DOMAIN gFinalMovies[i]
    /\ \A i \in 1..Len(gFinalTv) :
         /\ "seasons" \in DOMAIN gFinalTv[i]
         /\ "episode_count" \in DOMAIN gFinalTv[i]
         /\ ~NonEmptyList(gFinalTv[i], "files")


(***************************************************************************)
(* Properties of the placeholders of candidates TMDb does not know         *)
(***************************************************************************)
\* organized.movies followed by organized.tvShows
Organized == dOrgMovies \o dOrgTv

\* the answer of the lookup _enrichWithTmdbData makes for the k-th record
EnrichLookup(k) ==
  IF k <= Len(dOrgMovies) THEN searchMovie(tCatalog, dOrgMovies[k].title)
  ELSE searchTv(tCatalog, dOrgTv[k - Len(dOrgMovies)].title)

\* the record keeps the title and the files or seasons of the candidate
KeepsCandidate(record, candidate) ==
  /\ record.title = candidate.title
  /\ "files" \in DOMAIN candidate =>
       "files" \in DOMAIN record /\ record.files = candidate.files
  /\ "seasons" \in DOMAIN candidate =>
       /\ "seasons" \in DOMAIN record
       /\ Len(record.seasons) = Len(candidate.seasons)
       /\ \A s \in 1..Len(candidate.seasons) :
            record.seasons[s].episodes = candidate.seasons[s].episodes

\* the k-th record of the sequence has an id no other record has
UniqueIdAt(records, k) ==
  \A j \in 1..Len(records) : j # k => records[j].id # records[k].id

\* the placeholders of _enrichWithTmdbData
EnrichPlaceholders ==
  EnrichWithTmdbData =>
    /\ Len(dOrgMovies') = Len(dOrgMovies)
    /\ Len(dOrgTv') = Len(dOrgTv)
    /\ \A k \in 1..Len(Organized) :
         EnrichLookup(k) = <<>> =>
           /\ KeepsCandidate(Organized'[k], Organized[k])
           /\ UniqueIdAt(Organized', k)

\* the placeholders of the two loops of generateSmartMovieData
DetailsPlaceholders ==
  /\ MovieDetails /\ getMediaDetails(tCatalog, gMovies[gIdx].title, "movie") = <<>>
       => /\ Len(gMap') = Len(gMap) + 1
          /\ KeepsCandidate(gMap'[Len(gMap')].value, gMovies[gIdx])
          /\ UniqueIdAt([i \in 1..Len(gMap') |-> gMap'[i].value], Len(gMap'))
  /\ TvDetails /\ getMediaDetails(tCatalog, gTvShows[gIdx - Len(gMovies)].title,
                                  "tv") = <<>>
       => /\ Len(gMap') = Len(gMap) + 1
          /\ KeepsCandidate(gMap'[Len(gMap')].value,
                            gTvShows[gIdx - Len(gMovies)])
          /\ UniqueIdAt([i \in 1..Len(gMap') |-> gMap'[i].value], Len(gMap'))

\* C11: whenever the lookup for a candidate answers null, the step adds a
\* placeholder record with the candidate's title, its files or seasons and
\* an id no other record has, and no candidate is dropped; in
\* _enrichWithTmdbData and in the two loops of generateSmartMovieData.
C11_PlaceholderForEveryMiss ==
  [][EnrichPlaceholders /\ DetailsPlaceholders]_vars

\* the part of C11 about the two loops of generateSmartMovieData alone
C11_DetailsPlaceholders == [][DetailsPlaceholders]_vars


(***************************************************************************)
(* Properties of the run as a whole                                        *)
(***************************************************************************)
\* generateSmartMovieData ended in its catch block: nothing was published
Aborted == gPc = "failed"

\* C12: a run of generateSmartMovieData that detected at least one candidate
\* is never ended by an exception of an intermediate step (season merge,
\* misclassification correction, enrichment, split, aggregation).
C12_NoStepAborts ==
  Len(dOrgMovies) + Len(dOrgTv) > 0 => ~Aborted


\* C14: a subdirectory whose listing returns no entries contributes no
\* candidate, so every movie candidate of the organized result has at least
\* one file.
C14_MovieCandidateHasFile ==
  Detected => \A i \in 1..Len(dOrgMovies) : Len(dOrgMovies[i].files) > 0


(***************************************************************************)
(* PathAnalyzer.analyzePath on one root                                    *)
(***************************************************************************)
WalkRoot == <<"/","m","e","d","i","a">>

NameFilm     == <<"F","i","l","m",".","m","k","v">>
NameAvatarMkv == <<"A","v","a","t","a","r",".","m","k","v">>
NameEp1      == <<"S","h","o","w",".","S","0","1","E","0","1",".","m","k","v">>
NameEp2      == <<"S","h","o","w",".","S","0","1","E","0","2",".","m","k","v">>
NameNotes    == <<"n","o","t","e","s",".","t","x","t">>
NameLoop     == <<"L","o","o","p">>
NameBrothers == <<"B","r","o","t","h","e","r","s">>
NameExtras   == <<"e","x","t","r","a","s">>
NameEmpty    == <<"E","m","p","t","y">>
NameDeep     == <<"D","e","e","p">>
NameSub      == <<"S","u","b">>
NameMix      == <<"M","i","x">>
NameMovies   == <<"M","o","v","i","e","s">>

\* the entries a walked root can hold
WalkEntries ==
  << Dir(NameShow, <<Dir(NameSeason1, <<File(NameEp1), File(NameEp2)>>),
                     File(NameFilm)>>),
     Dir(NameSeason1, <<File(NameEp1), File(NameEp2)>>),
     Endless(NameLoop),
     Dir(NameBrothers, <<File(NameFilm)>>),
     Dir(NameExtras, <<File(NameFilm)>>),
     Dir(NameEmpty, <<>>),
     Dir(NameDeep, <<Dir(NameSub, <<Dir(NameSub, <<File(NameFilm)>>)>>)>>),
     Dir(NameMix, <<File(NameFilm), File(NameAvatarMkv), File(NameEp1)>>),
     Dir(NameMovies, <<File(NameFilm)>>),
     File(NameFilm),
     File(NameEp1),
     File(NameNotes) >>

\* the number of entries of a walked root
MaxWalkItems == 2

\* the listings of the root: up to MaxWalkItems entries, in the order above
WalkListings ==
  { LET has(entry) == \E i \in S : WalkEntries[i] = entry
    IN FilterSeq(WalkEntries, has) :
      S \in {X \in SUBSET DOMAIN WalkEntries : Cardinality(X) <= MaxWalkItems} }

\* the largest configured maxDepth
MaxConfigDepth == 2

\* the config objects handed to the constructor: none, or a maxDepth
WalkConfigs ==
  [i \in 1..(MaxConfigDepth + 2) |->
     IF i = 1 THEN <<>> ELSE [maxDepth |-> i - 2]]

\* a call of _analyzeRecursive that has not listed its path yet
Call(path, depth) ==
  [path |-> path, depth |-> depth, at |-> "enter", items |-> <<>>,
   idx |-> 0, info |-> NewPathInfo(path, depth)]

Top == wStack[Len(wStack)]
Pop == SubSeq(wStack, 1, Len(wStack) - 1)
SetTop(frame) == [wStack EXCEPT ![Len(wStack)] = frame]

InitWalk ==
  /\ wPc = "start"
  /\ wConfig \in {PathAnalyzerConfig(WalkConfigs[i]) : i \in DOMAIN WalkConfigs}
  /\ wTree \in WalkListings
  /\ wStack = <<>>
  /\ wAnalysis = <<>>
  /\ wListed = <<>>
  /\ IdleParse
  /\ IdleDetect
  /\ IdleGen
  /\ IdleConf
  /\ IdleRest

\* analyzePath up to the first call of _analyzeRecursive
AnalyzePath ==
  /\ wPc = "start"
  /\ wAnalysis' = NewAnalysis(WalkRoot)
  /\ wStack' = <<Call(WalkRoot, 0)>>
  /\ wPc' = "walk"
  /\ UNCHANGED <<wConfig, wTree, wListed>>
  /\ UNCHANGED <<parseVars, detectVars, genVars, confVars, restVars>>

\* _analyzeRecursive: the depth guard returns
DepthLimit ==
  /\ wPc = "walk"
  /\ wStack # <<>>
  /\ Top.at = "enter"
  /\ depthExceeded(Top.depth, wConfig)
  /\ wStack' = Pop
  /\ UNCHANGED <<wPc, wConfig, wTree, wAnalysis, wListed>>
  /\ UNCHANGED <<parseVars, detectVars, genVars, confVars, restVars>>

\* _analyzeRecursive: listDirectory(currentPath) and what follows it up to
\* the loop over the items
ListDirectory ==
  /\ wPc = "walk"
  /\ wStack # <<>>
  /\ Top.at = "enter"
  /\ ~depthExceeded(Top.depth, wConfig)
  /\ \E outcome \in Outcomes :
     \E listing \in {walkListing(WalkRoot, wTree, Top.path)} :
     \E answer \in {getFiles(outcome, listing)} :
     \E next \in {afterListing(answer)} :
       /\ wListed' = Append(wListed, [path |-> Top.path, depth |-> Top.depth,
                                      outcome |-> outcome,
                                      count |-> Len(listing)])
       /\ IF next = "raise"
          THEN /\ wPc' = "raised"
               /\ wStack' = <<>>
               /\ UNCHANGED wAnalysis
          ELSE IF next = "return"
          THEN /\ wStack' = Pop
               /\ UNCHANGED <<wPc, wAnalysis>>
          ELSE /\ wAnalysis' =
                    [wAnalysis EXCEPT
                       !.statistics.totalDirectories = @ + 1,
                       !.statistics.maxDepth =
                          IF Top.depth > @ THEN Top.depth ELSE @]
               /\ wStack' = SetTop([Top EXCEPT !.at = "loop",
                                               !.items = answer.items,
                                               !.idx = 1])
               /\ UNCHANGED wPc
  /\ UNCHANGED <<wConfig, wTree>>
  /\ UNCHANGED <<parseVars, detectVars, genVars, confVars, restVars>>

\* one turn of the loop over the items, up to the recursive call
VisitItem ==
  /\ wPc = "walk"
  /\ wStack # <<>>
  /\ Top.at = "loop"
  /\ Top.idx <= Len(Top.items)
  /\ \E item \in {Top.items[Top.idx]} :
       IF item.is_dir /\ shouldIgnoreDirectory(wConfig, item.name)
       THEN /\ wStack' = SetTop([Top EXCEPT !.idx = @ + 1])
            /\ UNCHANGED wAnalysis
       ELSE \E frame \in {[Top EXCEPT
                             !.idx = @ + 1,
                             !.info = visitItem(@, item, Top.path)]} :
              /\ wStack' = IF item.is_dir
                           THEN Append(SetTop(frame),
                                       Call(PathJoin(Top.path, item.name),
                                            Top.depth + 1))
                           ELSE SetTop(frame)
              /\ wAnalysis' =
                   IF ~item.is_dir /\ isVideoFilePA(item.name)
                   THEN [wAnalysis EXCEPT !.statistics.totalFiles = @ + 1]
                   ELSE wAnalysis
  /\ UNCHANGED <<wPc, wConfig, wTree, wListed>>
  /\ UNCHANGED <<parseVars, detectVars, genVars, confVars, restVars>>

\* the record written when the loop is entered, before the subdirectories
\* are walked
RecordDirectoryFirst ==
  /\ wPc = "walk"
  /\ wStack # <<>>
  /\ Top.at = "loop"
  /\ IF \E i \in 1..Len(wAnalysis.pathMap) :
          wAnalysis.pathMap[i].key = Top.path
     THEN /\ Top.idx > Len(Top.items)
          /\ wStack' = Pop
          /\ UNCHANGED wAnalysis
     ELSE /\ wAnalysis' = recordDirectory(wAnalysis, Top.info)
          /\ wStack' = IF Top.idx > Len(Top.items) THEN Pop ELSE wStack
  /\ UNCHANGED <<wPc, wConfig, wTree, wListed>>
  /\ UNCHANGED <<parseVars, detectVars, genVars, confVars, restVars>>

\* after the loop: the type, the category, pathMap.set and the return
RecordDirectory ==
  /\ wPc = "walk"
  /\ wStack # <<>>
  /\ Top.at = "loop"
  /\ Top.idx > Len(Top.items)
  /\ wAnalysis' = recordDirectory(wAnalysis, Top.info)
  /\ wStack' = Pop
  /\ UNCHANGED <<wPc, wConfig, wTree, wListed>>
  /\ UNCHANGED <<parseVars, detectVars, genVars, confVars, restVars>>

\* analyzePath after _analyzeRecursive returned
FinishAnalysis ==
  /\ wPc = "walk"
  /\ wStack = <<>>
  /\ wAnalysis' = [wAnalysis EXCEPT
                     !.statistics = calculateStatistics(wAnalysis),
                     !.structure = determineStructureType(wAnalysis)]
  /\ wPc' = "done"
  /\ UNCHANGED <<wConfig, wTree, wStack, wListed>>
  /\ UNCHANGED <<parseVars, detectVars, genVars, confVars, restVars>>

NextWalk ==
  \/ AnalyzePath
  \/ DepthLimit
  \/ ListDirectory
  \/ VisitItem
  \/ RecordDirectory
  \/ FinishAnalysis

SpecWalk == InitWalk /\ [][NextWalk]_vars

\* analyzePath is one chain of awaited calls: once the listing service has
\* answered (with a listing or a failure) the next step of the chain runs
SpecWalkLive == SpecWalk /\ WF_vars(NextWalk)


(***************************************************************************)
(* Properties of the walk                                                  *)
(***************************************************************************)
WalkDone == wPc = "done"

\* the keys of pathMap and the pathInfo recorded under a key
RecordedPaths ==
  {wAnalysis.pathMap[i].key : i \in 1..Len(wAnalysis.pathMap)}
RecordOf(path) ==
  wAnalysis.pathMap[CHOOSE i \in 1..Len(wAnalysis.pathMap) :
                      wAnalysis.pathMap[i].key = path].value

\* the calls of listDirectory, as a set
ListedCalls == {wListed[i] : i \in 1..Len(wListed)}

\* the categories hold the record of a path exactly once, where its type
\* says
Categorized(info) ==
  \E field \in {IF info.type \in {"movie_collection", "movie_library"}
                THEN "movies"
                ELSE IF info.type \in {"tv_season", "tv_show"} THEN "tvShows"
                ELSE IF info.type = "mixed_content" THEN "mixed"
                ELSE "unknown"} :
    \E i \in 1..Len(wAnalysis.categories[field]) :
      wAnalysis.categories[field][i] = info

\* once analyzePath returned: a path whose listing failed has no record,
\* like a path with no entries, and every path whose listing succeeded with
\* entries is recorded with the type of its own content
FailuresLeaveTheRest ==
  WalkDone =>
    \A call \in ListedCalls :
      IF call.outcome = "ok" /\ call.count > 0
      THEN /\ call.path \in RecordedPaths
           /\ \E info \in {RecordOf(call.path)} :
                /\ info.type = analyzeDirectoryType(info)
                /\ Len(info.items) + Len(info.subdirectories) <= call.count
                /\ Categorized(info)
      ELSE call.path \notin RecordedPaths

\* a step of the walk leaves the records of pathMap as they are
RecordsKept ==
  wPc = "walk" =>
    /\ Len(wAnalysis'.pathMap) >= Len(wAnalysis.pathMap)
    /\ \A i \in 1..Len(wAnalysis.pathMap) :
         wAnalysis'.pathMap[i] = wAnalysis.pathMap[i]

\* C13: when listDirectory fails for a path during analyzePath, the path is
\* treated as having no entries: analyzePath does not raise, every directory
\* whose own listing succeeded is classified and recorded, and the records
\* written before the failure are unchanged.
C13_FailedListingIsEmpty ==
  /\ [](wPc # "raised")
  /\ [](FailuresLeaveTheRest)
  /\ [][RecordsKept]_vars

\* analyzePath returned after the listing of a child directory failed in
\* each way, with the root and a later sibling recorded and an earlier
\* record in place
C13_Witness ==
  /\ WalkDone
  /\ WalkRoot \in RecordedPaths
  /\ \E a, b, c \in 1..Len(wListed) :
       /\ a < b /\ b < c
       /\ wListed[a].outcome = "ok" /\ wListed[a].depth = 1
       /\ wListed[a].path \in RecordedPaths
       /\ wListed[b].outcome = "throw" /\ wListed[b].depth >= 1
       /\ wListed[c].outcome = "ok" /\ wListed[c].depth = 1
       /\ wListed[c].path \in RecordedPaths


\* no call of listDirectory is on a path deeper than maxDepth
ListedWithinDepth ==
  \A call \in ListedCalls : call.depth <= wConfig.maxDepth

\* C15: for every configured maxDepth of at least 1 and every tree with
\* finite listings, also one deeper than maxDepth and one without end,
\* analyzePath terminates without raising and never calls listDirectory on
\* a path at a depth greater than maxDepth.
C15_TerminatesWithinDepth ==
  /\ [](wConfig.maxDepth >= 1 => ListedWithinDepth /\ wPc # "raised")
  /\ (wConfig.maxDepth >= 1 ~> WalkDone)

\* analyzePath returned from a tree without end, having listed the
\* directory at depth maxDepth and nothing below it
C15_Witness ==
  /\ WalkDone
  /\ wConfig.maxDepth >= 1
  /\ \E i \in 1..Len(wTree) : wTree[i].endless
  /\ \E call \in ListedCalls :
       /\ call.depth = wConfig.maxDepth
       /\ call.outcome = "ok"
       /\ call.path \in RecordedPaths
       /\ \E k \in 1..Len(RecordOf(call.path).subdirectories) :
            \A other \in ListedCalls :
              other.path # RecordOf(call.path).subdirectories[k].path


\* the name is an entry of the ignore list, letter case aside
IsIgnoreEntry(name) ==
  \E k \in 1..Len(wConfig.ignoreDirs) :
    LowerCase(name) = LowerCase(wConfig.ignoreDirs[k])

\* C16: a child directory is skipped only if its name is an entry of the
\* ignore list; every child directory whose name is not an entry of the
\* list and that lies within the depth bound is recorded among its parent's
\* subdirectories and recursed into.
C16_SkippedOnlyIfListed ==
  WalkDone =>
    \A call \in ListedCalls :
      call.path \in RecordedPaths =>
        \E listing \in {walkListing(WalkRoot, wTree, call.path)} :
          \A i \in 1..Len(listing) :
            listing[i].is_dir /\ ~IsIgnoreEntry(listing[i].name)
              /\ call.depth + 1 <= wConfig.maxDepth
            => \E child \in {PathJoin(call.path, listing[i].name)} :
                 /\ \E k \in 1..Len(RecordOf(call.path).subdirectories) :
                      RecordOf(call.path).subdirectories[k].path = child
                 /\ \E other \in ListedCalls : other.path = child


\* the movie-typed and episode-typed video files of a recorded directory
MovieTally(info) ==
  Cardinality({i \in 1..Len(info.videoFiles) :
                 info.videoFiles[i].metadata.type = "movie"})
EpisodeTally(info) ==
  Cardinality({i \in 1..Len(info.videoFiles) :
                 info.videoFiles[i].metadata.type = "episode"})

\* the records of pathMap
Records == {wAnalysis.pathMap[i].value : i \in 1..Len(wAnalysis.pathMap)}

\* C17: for every directory with at least one video file the type is
\* decided by comparing the tallies: more movie-typed than episode-typed
\* files gives movie_collection, more episode-typed than movie-typed files
\* gives tv_season, and mixed_content exactly when the tallies are equal
\* and nonzero.
C17_TypeByTallyComparison ==
  WalkDone =>
    \A info \in Records :
      Len(info.videoFiles) > 0 =>
        /\ MovieTally(info) > EpisodeTally(info)
             => info.type = "movie_collection"
        /\ EpisodeTally(info) > MovieTally(info) => info.type = "tv_season"
        /\ info.type = "mixed_content"
             <=> MovieTally(info) = EpisodeTally(info) /\ MovieTally(info) > 0

\* a directory holds a season folder or a video file with both a season and
\* an episode number
HasTvEvidence(info) ==
  \/ \E k \in 1..Len(info.subdirectories) :
       info.subdirectories[k].type = "seasons"
  \/ \E i \in 1..Len(info.videoFiles) :
       /\ info.videoFiles[i].metadata.season # Null
       /\ info.videoFiles[i].metadata.episode # Null

\* C18: a directory with at least one season-folder subdirectory or at
\* least one video file carrying both a season and an episode number has
\* the type tv_season or tv_show, also when the movie and episode tallies
\* of its files tie.
C18_TvEvidenceGivesTv ==
  WalkDone =>
    \A info \in Records :
      HasTvEvidence(info) => info.type \in {"tv_season", "tv_show"}


(***************************************************************************)
(* ConfigManager (src/config-manager.js) and the preset SmartDetector      *)
(* hands to the detector of a path.  Of a preset the model keeps           *)
(* moviePatterns.filePatterns and tvPatterns.seasonEpisodePatterns.        *)
(***************************************************************************)
\* /\.(ext1|ext2|...)$/i
FilePattern(exts) ==
  [k \in 1..Len(exts) |-> <<Lit(<<".">>), LitCI(exts[k]), Eos>>]

ExtsDefault ==
  << <<"m","p","4">>, <<"m","k","v">>, <<"a","v","i">>, <<"m","o","v">>, <<"w","m","v">>, <<"f","l","v">>, <<"w","e","b","m">>, <<"m","4","v">>, <<"t","s">>, <<"m","2","t","s">> >>
ExtsStrict ==
  << <<"m","p","4">>, <<"m","k","v">>, <<"a","v","i">>, <<"m","o","v">>, <<"w","m","v">>, <<"f","l","v">>, <<"w","e","b","m">>, <<"m","4","v">> >>
ExtsLoose == ExtsDefault \o << <<"r","m","v","b">>, <<"3","g","p">>, <<"f","4","v">> >>

\* .
AnyChar == Chars

\* /S(\d{1,2})E(\d{1,3})/i
ReSxE ==
  << <<LitCI(<<"S">>), Cap(Digit, 1, 2), LitCI(<<"E">>), Cap(Digit, 1, 3)>> >>
\* /Season[\s\._-]*(\d{1,2}).*EP?(\d{1,3})/i
ReSeasonEp ==
  << <<LitCI(<<"S","e","a","s","o","n">>), Rep(SepPA, 0, Many), Cap(Digit, 1, 2),
       Rep(AnyChar, 0, Many), LitCI(<<"E">>), Rep({"P", "p"}, 0, 1),
       Cap(Digit, 1, 3)>> >>
\* /第(\d{1,2})季.*第(\d{1,3})集/i
ReCnSeasonEp ==
  << <<Lit(<<ChDi>>), Cap(Digit, 1, 2), Lit(<<ChJi>>), Rep(AnyChar, 0, Many),
       Lit(<<ChDi>>), Cap(Digit, 1, 3), Lit(<<ChJie>>)>> >>
\* /(\d{1,2})x(\d{1,3})/i
ReNxN == << <<Cap(Digit, 1, 2), LitCI(<<"x">>), Cap(Digit, 1, 3)>> >>
\* /EP?(\d{1,3})/i
ReEp == << <<LitCI(<<"E">>), Rep({"P", "p"}, 0, 1), Cap(Digit, 1, 3)>> >>
\* /第(\d{1,3})集/i
ReCnEp == << <<Lit(<<ChDi>>), Cap(Digit, 1, 3), Lit(<<ChJie>>)>> >>

Preset(name, description, exts, patterns) ==
  [name |-> name, description |-> description,
   filePatterns |-> FilePattern(exts),
   seasonEpisodePatterns |-> patterns]

\* this.presets after the constructor
presets ==
  << [key |-> "default", value |->
        Preset("default preset", "for most cases", ExtsDefault,
               <<ReSxE, ReSeasonEp, ReCnSeasonEp, ReNxN>>)],
     [key |-> "chinese", value |->
        Preset("chinese preset", "for chinese names", ExtsDefault,
               <<ReCnSeasonEp, ReSxE, ReNxN>>)],
     [key |-> "strict", value |->
        Preset("strict preset", "fewer false positives", ExtsStrict,
               <<ReSxE, ReCnSeasonEp>>)],
     [key |-> "loose", value |->
        Preset("loose preset", "as much as possible", ExtsLoose,
               <<ReSxE, ReSeasonEp, ReCnSeasonEp, ReNxN, ReEp, ReCnEp>>)] >>

\* properties every object literal inherits from Object.prototype
ObjectPrototypeNames ==
  {"constructor", "toString", "valueOf", "hasOwnProperty", "isPrototypeOf",
   "propertyIsEnumerable", "toLocaleString", "__proto__"}

\* this.presets[name]: <<the value>>, or <<>> for undefined.  A name that is
\* not a key of the object is looked up in Object.prototype
PresetProperty(map, name) ==
  Bind(MapIndex(map, name), LAMBDA i :
    IF i # 0 THEN <<map[i].value>>
    ELSE IF name \in ObjectPrototypeNames THEN <<[inherited |-> name]>>
    ELSE <<>>)

\* getPreset: this.presets[name] || this.presets.default
getPreset(map, name) ==
  Bind(PresetProperty(map, name), LAMBDA found :
    IF found # <<>> THEN found[1] ELSE PresetProperty(map, "default")[1])

\* setCurrentConfig: [currentConfig, the value returned]
setCurrentConfig(map, current, name) ==
  IF PresetProperty(map, name) # <<>>
  THEN [currentConfig |-> name, returns |-> TRUE]
  ELSE [currentConfig |-> current, returns |-> FALSE]

\* addCustomConfig: this.presets afterwards
addCustomConfig(map, name, config) ==
  MapSet(map, name,
    Spread([name |-> IF "name" \in DOMAIN config THEN config.name ELSE name,
            description |-> IF "description" \in DOMAIN config
                            THEN config.description ELSE "custom preset"],
           config))

\* the ContentDetector constructor: videoExtensions, then ...config
ContentDetectorConfig(config) ==
  Spread([videoExtensions |-> videoExtensions], config)

\* _analyzePathWithConfig, lines 217-218, and what the detector it builds
\* answers about one file name
detectorOfPath(map, pathConfig, filename) ==
  Bind(ContentDetectorConfig(getPreset(map, "chinese")), LAMBDA config :
    [isVideo |-> getFileExtension(filename) \in config.videoExtensions,
     seasonEpisode |-> extractSeasonEpisode(filename)])

(***************************************************************************)
(* Calls on one ConfigManager                                              *)
(***************************************************************************)
\* the names the calls are made with
CallNames ==
  {"default", "chinese", "strict", "loose", "custom", "missing", "constructor"}
AddNames == {"custom", "default"}

\* the config objects handed to addCustomConfig
CustomConfigs ==
  << [filePatterns |-> FilePattern(<< <<"m","k","v">> >>),
      seasonEpisodePatterns |-> <<ReNxN>>],
     [name |-> "mine", description |-> "my own",
      filePatterns |-> FilePattern(ExtsLoose),
      seasonEpisodePatterns |-> <<ReEp>>] >>

\* the file names the detector of a path is asked about
ConfigFileNames ==
  { <<"F","i","l","m",".","r","m","v","b">>, <<"F","i","l","m",".","t","s">>, <<"S","h","o","w",".","S","0","1","E","1","0","0",".","m","k","v">>, <<"S","h","o","w",".","1","x","0","2",".","m","k","v">> }
PathConfigs == {<<>>, <<"strict">>, <<"loose">>}

InitConf ==
  /\ cPresets = presets
  /\ cCurrent = "default"
  /\ cRet = <<>>
  /\ cLastSet = "default"
  /\ cPathConfig \in PathConfigs
  /\ cName \in ConfigFileNames
  /\ cSeen = <<>>
  /\ IdleParse
  /\ IdleDetect
  /\ IdleGen
  /\ IdleWalk
  /\ IdleRest

GetPreset ==
  /\ \E n \in CallNames :
       cRet' = <<[op |-> "getPreset", name |-> n,
                  value |-> getPreset(cPresets, n)]>>
  /\ UNCHANGED <<cPresets, cCurrent, cLastSet, cPathConfig, cName, cSeen>>
  /\ UNCHANGED <<parseVars, detectVars, genVars, walkVars, restVars>>

\* ConfigManager.setCurrentConfig, also reached by SmartDetector.setConfig
SetCurrentConfig ==
  /\ \E n \in CallNames :
     \E r \in {setCurrentConfig(cPresets, cCurrent, n)} :
       /\ cCurrent' = r.currentConfig
       /\ cLastSet' = IF r.returns THEN n ELSE cLastSet
       /\ cRet' = <<[op |-> "setCurrentConfig", name |-> n,
                     value |-> r.returns]>>
  /\ UNCHANGED <<cPresets, cPathConfig, cName, cSeen>>
  /\ UNCHANGED <<parseVars, detectVars, genVars, walkVars, restVars>>

GetCurrentConfig ==
  /\ cRet' = <<[op |-> "getCurrentConfig", name |-> cCurrent,
                value |-> getPreset(cPresets, cCurrent)]>>
  /\ UNCHANGED <<cPresets, cCurrent, cLastSet, cPathConfig, cName, cSeen>>
  /\ UNCHANGED <<parseVars, detectVars, genVars, walkVars, restVars>>

AddCustomConfig ==
  /\ \E n \in AddNames :
     \E k \in DOMAIN CustomConfigs :
       /\ cPresets' = addCustomConfig(cPresets, n, CustomConfigs[k])
       /\ cRet' = <<[op |-> "addCustomConfig", name |-> n, value |-> FALSE]>>
  /\ UNCHANGED <<cCurrent, cLastSet, cPathConfig, cName, cSeen>>
  /\ UNCHANGED <<parseVars, detectVars, genVars, walkVars, restVars>>

\* _analyzePathWithConfig builds the detector of the path, which is asked
\* about the file name
AnalyzeName ==
  /\ cSeen' = <<detectorOfPath(cPresets, cPathConfig, cName)>>
  /\ UNCHANGED <<cPresets, cCurrent, cRet, cLastSet, cPathConfig, cName>>
  /\ UNCHANGED <<parseVars, detectVars, genVars, walkVars, restVars>>

NextConf ==
  \/ GetPreset
  \/ SetCurrentConfig
  \/ GetCurrentConfig
  \/ AddCustomConfig
  \/ AnalyzeName

SpecConf == InitConf /\ [][NextConf]_vars


(***************************************************************************)
(* Properties of the presets                                               *)
(***************************************************************************)
\* the preset selected for the path: its detection_config, or else the
\* configuration set with setConfig
SelectedPreset ==
  IF cPathConfig # <<>> THEN getPreset(cPresets, cPathConfig[1])
  ELSE getPreset(cPresets, cCurrent)

\* the extensions of the preset count the name as video
PresetCountsVideo(preset, filename) == Test(filename, preset.filePatterns)

\* the season and episode the patterns of the preset give, tried in the
\* preset's order: the first pattern that matches decides
RECURSIVE PresetParseFrom(_, _, _)
PresetParseFrom(preset, filename, k) ==
  IF k > Len(preset.seasonEpisodePatterns)
  THEN [season |-> Null, episode |-> Null]
  ELSE Bind(Search(filename, preset.seasonEpisodePatterns[k]), LAMBDA m :
         IF m = <<>> THEN PresetParseFrom(preset, filename, k + 1)
         ELSE IF Len(m[1].caps) = 2
         THEN [season |-> ParseInt(m[1].caps[1]),
               episode |-> ParseInt(m[1].caps[2])]
         ELSE [season |-> Null, episode |-> ParseInt(m[1].caps[1])])
PresetParse(preset, filename) == PresetParseFrom(preset, filename, 1)

\* C19: the preset selected for a path is the one consulted when the path is
\* analyzed: the detector parses a name with the season/episode patterns of
\* that preset, in that preset's order, and counts as video the extensions
\* of that preset.
C19_SelectedPresetIsConsulted ==
  cSeen # <<>> =>
    \E preset \in {SelectedPreset} :
      "filePatterns" \in DOMAIN preset =>
        /\ cSeen[1].isVideo = PresetCountsVideo(preset, cName)
        /\ cSeen[1].seasonEpisode = PresetParse(preset, cName)

\* the part of C19 about the extensions alone
C19_ExtensionsOfPreset ==
  cSeen # <<>> =>
    \E preset \in {SelectedPreset} :
      "filePatterns" \in DOMAIN preset =>
        cSeen[1].isVideo = PresetCountsVideo(preset, cName)


\* a preset is registered under the name, and that preset
Registered(n) == MapIndex(cPresets, n) # 0
RegisteredPreset(n) == cPresets[MapIndex(cPresets, n)].value

\* what the last call returned, for a call made with a name of `names`
CallAnswers(names) ==
  cRet # <<>> /\ cRet[1].name \in names =>
    /\ cRet[1].op = "getPreset" =>
         cRet[1].value = IF Registered(cRet[1].name)
                         THEN RegisteredPreset(cRet[1].name)
                         ELSE RegisteredPreset("default")
    /\ cRet[1].op = "setCurrentConfig" =>
         (cRet[1].value <=> Registered(cRet[1].name))
    /\ cRet[1].op = "getCurrentConfig" =>
         /\ cRet[1].name = cLastSet
         /\ Registered(cLastSet)
         /\ cRet[1].value = RegisteredPreset(cLastSet)

\* a setCurrentConfig with an unregistered name of `names` leaves the
\* current configuration as it was
RefusedSetKeeps(names) ==
  /\ cRet' # <<>>
  /\ cRet'[1].op = "setCurrentConfig"
  /\ cRet'[1].name \in names
  /\ ~Registered(cRet'[1].name)
  => cCurrent' = cCurrent

\* C20: after any sequence of addCustomConfig and setCurrentConfig calls,
\* getPreset(n) returns the preset registered under n when there is one and
\* the default preset otherwise; setCurrentConfig with an unregistered name
\* returns false and leaves the current configuration unchanged, so that
\* getCurrentConfig returns the preset named by the last successful
\* setCurrentConfig.
C20_PresetCalls ==
  /\ [](CallAnswers(CallNames))
  /\ [][RefusedSetKeeps(CallNames)]_vars

\* C20 for the calls made with names that Object.prototype does not define
C20_OrdinaryNames ==
  /\ [](cLastSet \notin ObjectPrototypeNames
          => CallAnswers(CallNames \ ObjectPrototypeNames))
  /\ [][RefusedSetKeeps(CallNames \ ObjectPrototypeNames)]_vars


(***************************************************************************)
(* TMDbAPI.initialize                                                      *)
(***************************************************************************)
\* initialize(retries = 2): every caller uses the default
DefaultRetries == 2
\* how many calls of initialize the program makes
MaxCalls == 2
InitializeCalls == 1..MaxCalls

\* what a request of the genre lists can come to: a rejection (a time-out
\* included), a response without data, data without genres, data with genres
Responses == {"fail", "nodata", "nogenres", "genres"}
MovieGenreIds == <<28, 35>>
TvGenreIds == <<10765>>

\* a field of genreCache is <<>> while it is null, <<list>> once it is set
EmptyList == <<>>
\* response.data.genres || []
genresOrEmpty(response, genres) ==
  IF response = "genres" THEN genres ELSE EmptyList

MayRetryOnceMore(retries) == retries >= 0
\* if (retries > 0)
mayRetry(retries) == retries > 0

NewCall ==
  [pc |-> "free", retries |-> DefaultRetries, attempts |-> 0, requests |-> 0,
   late |-> FALSE, movie |-> "", degraded |-> FALSE, returnedAtOnce |-> FALSE]

InitInitialize ==
  /\ aInitialized = FALSE
  /\ aGenreCache = [movie |-> <<>>, tv |-> <<>>]
  /\ aCalls = [c \in InitializeCalls |-> NewCall]
  /\ aAllFailed = TRUE
  /\ IdleParse
  /\ IdleDetect
  /\ IdleGen
  /\ IdleWalk
  /\ IdleConf
  /\ IdleBesidesTmdb

\* the body of initialize up to its first await: the guard, then the request
\* of the movie genres
enterInitialize(call) ==
  IF aInitialized
    THEN [call EXCEPT !.pc = "done", !.returnedAtOnce = TRUE]
    ELSE [call EXCEPT !.pc = "movie", !.attempts = @ + 1,
                      !.requests = @ + 1]

\* a call of initialize()
Initialize(c) ==
  /\ aCalls[c].pc = "free"
  /\ aCalls' = [aCalls EXCEPT
       ![c] = enterInitialize([aCalls[c] EXCEPT !.late = aInitialized])]
  /\ UNCHANGED <<aInitialized, aGenreCache, aAllFailed>>
  /\ UNCHANGED <<parseVars, detectVars, genVars, walkVars, confVars,
               besidesTmdb>>

\* the catch block of the call c
Catch(c) ==
  IF mayRetry(aCalls[c].retries)
    THEN /\ aCalls' = [aCalls EXCEPT ![c].pc = "sleep"]
         /\ UNCHANGED <<aInitialized, aGenreCache>>
    ELSE /\ aGenreCache' = [movie |-> <<EmptyList>>, tv |-> <<EmptyList>>]
         /\ aInitialized' = TRUE
         /\ aCalls' = [aCalls EXCEPT ![c].pc = "done", ![c].degraded = TRUE]

\* the request of the movie genres settles
MovieResponse(c) ==
  /\ aCalls[c].pc = "movie"
  /\ \E response \in Responses :
       /\ aAllFailed' = (aAllFailed /\ response = "fail")
       /\ IF response = "fail"
            THEN Catch(c)
            ELSE /\ aCalls' = [aCalls EXCEPT ![c].pc = "tv",
                                             ![c].movie = response,
                                             ![c].requests = @ + 1]
                 /\ UNCHANGED <<aInitialized, aGenreCache>>
  /\ UNCHANGED <<parseVars, detectVars, genVars, walkVars, confVars,
               besidesTmdb>>

\* the request of the tv genres settles; the two responses are read
TvResponse(c) ==
  /\ aCalls[c].pc = "tv"
  /\ \E response \in Responses :
       /\ aAllFailed' = (aAllFailed /\ response = "fail")
       /\ IF response = "fail" \/ aCalls[c].movie = "nodata"
             \/ response = "nodata"
            THEN Catch(c)
            ELSE /\ aGenreCache' =
                      [movie |->
                         <<genresOrEmpty(aCalls[c].movie, MovieGenreIds)>>,
                       tv |-> <<genresOrEmpty(response, TvGenreIds)>>]
                 /\ aInitialized' = TRUE
                 /\ aCalls' = [aCalls EXCEPT ![c].pc = "done"]
  /\ UNCHANGED <<parseVars, detectVars, genVars, walkVars, confVars,
               besidesTmdb>>

\* the two seconds are over: return this.initialize(retries - 1)
Retry(c) ==
  /\ aCalls[c].pc = "sleep"
  /\ aCalls' = [aCalls EXCEPT
       ![c] = enterInitialize([aCalls[c] EXCEPT !.retries = @ - 1])]
  /\ UNCHANGED <<aInitialized, aGenreCache, aAllFailed>>
  /\ UNCHANGED <<parseVars, detectVars, genVars, walkVars, confVars,
               besidesTmdb>>

NextInitialize ==
  \/ \E c \in InitializeCalls : Initialize(c)
  \/ \E c \in InitializeCalls : MovieResponse(c)
  \/ \E c \in InitializeCalls : TvResponse(c)
  \/ \E c \in InitializeCalls : Retry(c)

SpecInitialize == InitInitialize /\ [][NextInitialize]_vars

\* every request settles (timeout: 10000) and the timer of the retry fires
SpecInitializeLive ==
  /\ SpecInitialize
  /\ \A c \in InitializeCalls :
       WF_vars(MovieResponse(c) \/ TvResponse(c) \/ Retry(c))

\* C21: initialize never raises and always ends with initialized = true;
\* when every request fails, a call that does not find the object
\* initialized makes three attempts (the first and exactly 2 retries) and
\* then sets both genre lists to empty; a call made once initialized is true
\* sends no request
InitializeSafe ==
  \A c \in InitializeCalls :
    LET call == aCalls[c] IN
      /\ call.pc = "done" => aInitialized
      /\ call.degraded => call.attempts = DefaultRetries + 1
      /\ (call.pc = "done" /\ aAllFailed /\ ~call.returnedAtOnce) =>
           /\ call.degraded
           /\ aGenreCache = [movie |-> <<EmptyList>>, tv |-> <<EmptyList>>]
      /\ call.late => call.requests = 0
C21_InitializeEnds ==
  /\ []InitializeSafe
  /\ \A c \in InitializeCalls :
       (aCalls[c].pc # "free") ~> (aCalls[c].pc = "done")
C21_Witness ==
  \E c, d \in InitializeCalls :
    /\ aCalls[c].pc = "done" /\ aCalls[c].degraded /\ aAllFailed
    /\ aCalls[c].attempts = 3 /\ aCalls[c].requests = 3
    /\ aCalls[d].pc = "done" /\ aCalls[d].late


(***************************************************************************)
(* Title extraction                                                        *)
(***************************************************************************)
ChLBr == "U+3010"
ChRBr == "U+3011"

\* /\b(4K|2160p|1080p|720p|480p|HD|UHD|BluRay|WEB-DL|BDRip|DVDRip)\b/gi
ReQualityPA ==
  << <<Wb, LitCI(<<"4","K">>), Wb>>,
     <<Wb, LitCI(<<"2","1","6","0","p">>), Wb>>,
     <<Wb, LitCI(<<"1","0","8","0","p">>), Wb>>,
     <<Wb, LitCI(<<"7","2","0","p">>), Wb>>,
     <<Wb, LitCI(<<"4","8","0","p">>), Wb>>,
     <<Wb, LitCI(<<"H","D">>), Wb>>,
     <<Wb, LitCI(<<"U","H","D">>), Wb>>,
     <<Wb, LitCI(<<"B","l","u","R","a","y">>), Wb>>,
     <<Wb, LitCI(<<"W","E","B","-","D","L">>), Wb>>,
     <<Wb, LitCI(<<"B","D","R","i","p">>), Wb>>,
     <<Wb, LitCI(<<"D","V","D","R","i","p">>), Wb>> >>
\* /\b(x264|x265|H264|H265|HEVC|AVC)\b/gi
ReCodecPA ==
  << <<Wb, LitCI(<<"x","2","6","4">>), Wb>>,
     <<Wb, LitCI(<<"x","2","6","5">>), Wb>>,
     <<Wb, LitCI(<<"H","2","6","4">>), Wb>>,
     <<Wb, LitCI(<<"H","2","6","5">>), Wb>>,
     <<Wb, LitCI(<<"H","E","V","C">>), Wb>>,
     <<Wb, LitCI(<<"A","V","C">>), Wb>> >>
\* /\b(19|20)\d{2}\b/g
ReYearPA ==
  << <<Wb, Lit(<<"1","9">>), Rep(Digit, 2, 2), Wb>>,
     <<Wb, Lit(<<"2","0">>), Rep(Digit, 2, 2), Wb>> >>
\* /\b(S\d{1,2}E\d{1,3}|Season\s*\d+|第\d+季|第\d+集|EP?\d+)\b/gi
ReSeasonTokenPA ==
  << <<Wb, LitCI(<<"S">>), Rep(Digit, 1, 2), LitCI(<<"E">>), Rep(Digit, 1, 3),
       Wb>>,
     <<Wb, LitCI(<<"S","e","a","s","o","n">>), Rep(WS, 0, Many),
       Rep(Digit, 1, Many), Wb>>,
     <<Wb, Lit(<<ChDi>>), Rep(Digit, 1, Many), Lit(<<ChJi>>), Wb>>,
     <<Wb, Lit(<<ChDi>>), Rep(Digit, 1, Many), Lit(<<ChJie>>), Wb>>,
     <<Wb, LitCI(<<"E">>), Rep({"p", "P"}, 0, 1), Rep(Digit, 1, Many), Wb>> >>
\* /[\[【\(](.*?)[\]】\)]/g
ReBracketedPA ==
  << <<Str(<<{"[", ChLBr, "("}>>), Lazy(AnyChar, 0),
       Str(<<{"]", ChRBr, ")"}>>)>> >>

\* PathAnalyzer._extractTitle
extractTitlePA(filename) ==
  LET t1 == ReplaceFirst(filename, ReExtension, <<>>)
      t2 == ReplaceAll(t1, ReQualityPA, <<>>)
      t3 == ReplaceAll(t2, ReCodecPA, <<>>)
      t4 == ReplaceAll(t3, ReYearPA, <<>>)
      t5 == ReplaceAll(t4, ReSeasonTokenPA, <<>>)
      t6 == ReplaceAll(t5, ReBracketedPA, <<>>)
      \* /[._\-]+/g -> ' ', /\s+/g -> ' ', trim()
      t7 == ReplaceAll(t6, << <<Rep({".", "_", "-"}, 1, Many)>> >>, Sp)
      t8 == Trim(ReplaceAll(t7, << <<Rep(WS, 1, Many)>> >>, Sp))
  \* return title || filename
  IN IF t8 # <<>> THEN t8 ELSE filename

\* the names the extractors are given: a token of each kind the extractors
\* strip, alone or after a title, with or without an extension
TitleStems == { <<>>, <<"H","e","a","t",".">>, <<"H","e","a","t"," ">> }
TitleTokens ==
  { <<"1","0","8","0","p">>,
    <<"(","1","9","9","5",")">>,
    <<"x","2","6","4">>,
    <<"S","0","1","E","0","2">>,
    <<"7","2","A","A","C","0","p">>,
    <<"S","0","S","0","1","E","0","1","1","E","0","2">>,
    <<"2","0","1","9">>,
    <<"[","H","D","]">>,
    <<"E","P","3">>,
    <<"H","e","a","t">> }
TitleExts == { <<>>, ExtMkv }
TitleNames == { s \o k \o e : s \in TitleStems, k \in TitleTokens,
                              e \in TitleExts }

InitTitle ==
  /\ nName \in TitleNames
  /\ nCD = <<>>
  /\ nPA = <<>>
  /\ nTwice = <<>>
  /\ IdleParse
  /\ IdleDetect
  /\ IdleGen
  /\ IdleWalk
  /\ IdleConf
  /\ IdleBesidesTitle

\* ContentDetector.extractTitle(nName)
ExtractTitle ==
  /\ nCD = <<>>
  /\ \E title \in {extractTitle(nName)} : nCD' = <<title>>
  /\ UNCHANGED <<nName, nPA, nTwice>>
  /\ UNCHANGED <<parseVars, detectVars, genVars, walkVars, confVars,
               besidesTitle>>

\* PathAnalyzer._extractTitle(nName)
ExtractTitlePA ==
  /\ nPA = <<>>
  /\ \E title \in {extractTitlePA(nName)} : nPA' = <<title>>
  /\ UNCHANGED <<nName, nCD, nTwice>>
  /\ UNCHANGED <<parseVars, detectVars, genVars, walkVars, confVars,
               besidesTitle>>

\* ContentDetector.extractTitle on the title it returned
ExtractTitleAgain ==
  /\ nCD # <<>>
  /\ nTwice = <<>>
  /\ \E title \in {extractTitle(nCD[1])} : nTwice' = <<title>>
  /\ UNCHANGED <<nName, nCD, nPA>>
  /\ UNCHANGED <<parseVars, detectVars, genVars, walkVars, confVars,
               besidesTitle>>

NextTitle == ExtractTitle \/ ExtractTitlePA \/ ExtractTitleAgain

SpecTitle == InitTitle /\ [][NextTitle]_vars

\* C22: for every non-empty name both extractors return a non-empty title
C22_TitleNonEmpty ==
  nName # <<>> =>
    /\ nCD # <<>> => nCD[1] # <<>>
    /\ nPA # <<>> => nPA[1] # <<>>

\* C23: extractTitle(extractTitle(x)) = extractTitle(x)
C23_ExtractTitleIdempotent ==
  (nCD # <<>> /\ nTwice # <<>>) => nTwice[1] = nCD[1]


(***************************************************************************)
(* The order of the walk                                                   *)
(***************************************************************************)
\* the calls of _analyzeRecursive that await the answer of listDirectory
Outstanding == {i \in 1..Len(wStack) : wStack[i].at = "enter"}

\* path lies below dir; path is dir or lies below it
Below(path, dir) == StartsWith(path, dir \o Slash)
Within(path, dir) == path = dir \/ Below(path, dir)

\* the calls in progress are one chain: each is awaited by the loop of the
\* call before it, and only the innermost can await a listing
OneChain ==
  /\ Outstanding \subseteq {Len(wStack)}
  /\ \A i \in 1..(Len(wStack) - 1) :
       /\ wStack[i].at = "loop"
       /\ Below(wStack[i + 1].path, wStack[i].path)
       /\ wStack[i + 1].depth = wStack[i].depth + 1

\* no call is in progress at or below a path that has its record
RecordedAfterDescendants ==
  \A i \in 1..Len(wStack) : \A path \in RecordedPaths :
    ~Within(wStack[i].path, path)

\* the record is in the path map and in its category list together
RecordedTogether ==
  wPc \in {"walk", "done"} =>
    /\ \A path \in RecordedPaths : Categorized(RecordOf(path))
    /\ Len(wAnalysis.pathMap) =
         Len(wAnalysis.categories.movies) + Len(wAnalysis.categories.tvShows)
           + Len(wAnalysis.categories.mixed)
           + Len(wAnalysis.categories.unknown)

\* the records of one subtree are next to each other in the path map
SubtreesApart ==
  wPc \in {"walk", "done"} =>
    \A i, j, k \in 1..Len(wAnalysis.pathMap) :
      (i < j /\ j < k) =>
        \A call \in ListedCalls :
          (/\ Within(wAnalysis.pathMap[i].key, call.path)
           /\ Within(wAnalysis.pathMap[k].key, call.path))
            => Within(wAnalysis.pathMap[j].key, call.path)

\* a step lists no path below a path that has its record
ListsNothingRecorded ==
  Len(wListed') > Len(wListed) =>
    \A path \in RecordedPaths :
      ~Within(wListed'[Len(wListed')].path, path)

\* C24: analyzePath is a single writer: at most one listDirectory call is
\* outstanding, a directory's record is added to the category lists and the
\* path map only after every non-ignored descendant of it has been
\* processed, and the records of different subtrees do not interleave
C24_SingleWriter ==
  /\ [](Cardinality(Outstanding) <= 1)
  /\ []OneChain
  /\ []RecordedAfterDescendants
  /\ []RecordedTogether
  /\ []SubtreesApart
  /\ [][ListsNothingRecorded]_vars

\* analyzePath returned with the records of a directory, of its
\* subdirectory and of a sibling directory
C24_Witness ==
  /\ WalkDone
  /\ \E a, b, c \in 1..Len(wAnalysis.pathMap) :
       /\ a < b /\ b < c
       /\ Below(wAnalysis.pathMap[a].key, wAnalysis.pathMap[b].key)
       /\ wAnalysis.pathMap[b].value.depth = 1
       /\ wAnalysis.pathMap[c].value.depth = 1
  /\ WalkRoot \in RecordedPaths


(***************************************************************************)
(* The split of movieMap                                                   *)
(***************************************************************************)
\* generateSmartMovieData is past the split
SplitDone == gPc \in {"written", "empty"}

\* C25: the split into finalMovies and finalTvShows is a partition of the
\* enriched records: every record of movieMap is in exactly one of the two
\* lists, so the list handed to aggregateSameNameContent has it once
C25_SplitIsPartition ==
  SplitDone =>
    /\ \A i \in 1..Len(gMap) :
         IsFinalMovie(gMap[i].value) # IsFinalTvShow(gMap[i].value)
    /\ Len(gFinalMovies) + Len(gFinalTv) = Len(gMap)


(***************************************************************************)
(* Candidates that resolve to the same enrichment id                       *)
(***************************************************************************)
\* the two loops that fill movieMap are over
DetailsDone ==
  /\ gPc \in {"details", "written", "empty"}
  /\ gIdx > Len(gMovies) + Len(gTvShows)

SeqToSet(s) == {s[i] : i \in 1..Len(s)}
FilePaths(files) == {files[i].path : i \in 1..Len(files)}
EpisodePaths(seasons) ==
  UNION {{seasons[s].episodes[e].path : e \in 1..Len(seasons[s].episodes)} :
         s \in 1..Len(seasons)}

\* the record of movieMap under a key
MapValue(key) == gMap[MapIndex(gMap, key)].value

\* what getMediaDetails answered for the i-th candidate of a loop
MovieLookup(i) == getMediaDetails(tCatalog, gMovies[i].title, "movie")
TvLookup(i) == getMediaDetails(tCatalog, gTvShows[i].title, "tv")

\* C26: when two candidates resolve to the same enrichment id, the record
\* of that id holds the files of both (movies) or the episodes of the
\* season fragments of both (series)
C26_SameIdKeepsBoth ==
  DetailsDone =>
    /\ \A i, j \in 1..Len(gMovies) :
         (/\ i < j
          /\ MovieLookup(i) # <<>> /\ MovieLookup(j) # <<>>
          /\ MovieLookup(i)[1].id = MovieLookup(j)[1].id) =>
           FilePaths(gMovies[i].files) \cup FilePaths(gMovies[j].files)
             \subseteq FilePaths(MapValue(ToStr(MovieLookup(i)[1].id)).files)
    /\ \A i, j \in 1..Len(gTvShows) :
         (/\ i < j
          /\ TvLookup(i) # <<>> /\ TvLookup(j) # <<>>
          /\ TvLookup(i)[1].id = TvLookup(j)[1].id) =>
           EpisodePaths(gTvShows[i].seasons)
               \cup EpisodePaths(gTvShows[j].seasons)
             \subseteq EpisodePaths(
                MapValue(PrefixTv \o ToStr(TvLookup(i)[1].id)).seasons)


(***************************************************************************)
(* The season and episode numbers of the catalog                           *)
(***************************************************************************)
\* the numbers the detector reads from the file name of an episode
DetectedNumbers(episode) == extractSeasonEpisode(LastSegment(episode.path))

\* the numbers of a season of a catalog record are those detected
SeasonKeepsNumbers(season) ==
  /\ "season_number" \in DOMAIN season
  /\ \A e \in 1..Len(season.episodes) :
       \E detected \in {DetectedNumbers(season.episodes[e])} :
         /\ "episode_number" \in DOMAIN season.episodes[e]
         /\ Truthy(detected.episode) =>
              season.episodes[e].episode_number = detected.episode
         /\ Truthy(detected.season) =>
              season.season_number = detected.season

\* C27: for every TV record in the catalog, each seasons[i].season_number
\* and each episode_number equals the number detected for that fragment or
\* episode
C27_NumbersSurvive ==
  Written =>
    \A entry \in CatalogEntries :
      (entry.directory_type = "tv" /\ "seasons" \in DOMAIN entry) =>
        \A s \in 1..Len(entry.seasons) : SeasonKeepsNumbers(entry.seasons[s])


(***************************************************************************)
(* The legacy pipeline: generateMovieData (src/index.js)                   *)
(***************************************************************************)
\* /\.[^/.]+$/
ReExtensionNoSlash ==
  << <<Lit(<<".">>), Rep(Chars \ {".", "/"}, 1, Many), Eos>> >>

\* what follows (.+?) in /^(.+?)\s*[（(](\d+)[）)]\s*.*$/
ReTmdbIdTail ==
  << <<Rep(WS, 0, Many), Str(<<{"(", ChFwL}>>), Cap(Digit, 1, Many),
       Str(<<{")", ChFwR}>>), Rep(WS, 0, Many), Rep(AnyChar, 0, Many), Eos>> >>

\* extractTmdbIdFromName: <<>> is null, else <<[title, tmdbId]>>.  (.+?) is
\* the shortest non-empty prefix after which the rest of the pattern matches
extractTmdbIdFromName(name) ==
  Bind(ReplaceFirst(name, ReExtensionNoSlash, <<>>), LAMBDA s :
    Bind({k \in 1..Len(s) : MatchAlt(s, k + 1, ReTmdbIdTail) # <<>>},
         LAMBDA ks :
      IF ks = {} THEN <<>>
      ELSE Bind(MinSet(ks), LAMBDA k :
             Bind(<<Trim(SubSeq(s, 1, k)),
                    ParseInt(MatchAlt(s, k + 1, ReTmdbIdTail)[1].caps[1])>>,
                  LAMBDA r :
               IF r[1] # <<>> /\ r[2] > 0
               THEN <<[title |-> r[1], tmdbId |-> r[2]]>>
               ELSE <<>>))))

\* filePath.split('/').filter(part => part.length > 0)
pathPartsOf(filePath) ==
  LET nonEmpty(part) == Len(part) > 0
  IN FilterSeq(Split(filePath), nonEmpty)

\* /\b(4K|2160p|...|DVDRip|CAM|TS|TC)\b/gi
ReQualityLegacy ==
  << <<Wb, LitCI(<<"4","K">>), Wb>>,
     <<Wb, LitCI(<<"2","1","6","0","p">>), Wb>>,
     <<Wb, LitCI(<<"1","0","8","0","p">>), Wb>>,
     <<Wb, LitCI(<<"7","2","0","p">>), Wb>>,
     <<Wb, LitCI(<<"4","8","0","p">>), Wb>>,
     <<Wb, LitCI(<<"H","D">>), Wb>>,
     <<Wb, LitCI(<<"U","H","D">>), Wb>>,
     <<Wb, LitCI(<<"B","l","u","R","a","y">>), Wb>>,
     <<Wb, LitCI(<<"W","E","B","-","D","L">>), Wb>>,
     <<Wb, LitCI(<<"B","D","R","i","p">>), Wb>>,
     <<Wb, LitCI(<<"D","V","D","R","i","p">>), Wb>>,
     <<Wb, LitCI(<<"C","A","M">>), Wb>>,
     <<Wb, LitCI(<<"T","S">>), Wb>>,
     <<Wb, LitCI(<<"T","C">>), Wb>> >>
\* /\b(S\d{1,2}E\d{1,2}|Season\s*\d+|第\d+季|第\d+集|EP?\d+)\b/gi
ReSeasonTokenLegacy ==
  << <<Wb, LitCI(<<"S">>), Rep(Digit, 1, 2), LitCI(<<"E">>), Rep(Digit, 1, 2),
       Wb>>,
     <<Wb, LitCI(<<"S","e","a","s","o","n">>), Rep(WS, 0, Many),
       Rep(Digit, 1, Many), Wb>>,
     <<Wb, Lit(<<ChDi>>), Rep(Digit, 1, Many), Lit(<<ChJi>>), Wb>>,
     <<Wb, Lit(<<ChDi>>), Rep(Digit, 1, Many), Lit(<<ChJie>>), Wb>>,
     <<Wb, LitCI(<<"E">>), Rep({"p", "P"}, 0, 1), Rep(Digit, 1, Many), Wb>> >>

\* .replace(/[._\-]+/g, ' ').replace(/\s+/g, ' ').trim()
separatorsToSpaces(title) ==
  Trim(ReplaceAll(ReplaceAll(title, << <<Rep({".", "_", "-"}, 1, Many)>> >>,
                             Sp),
                  << <<Rep(WS, 1, Many)>> >>, Sp))

\* extractMovieTitle
extractMovieTitle(fileName, filePath) ==
  Bind(<<extractTmdbIdFromName(fileName), pathPartsOf(filePath)>>, LAMBDA v :
    IF v[1] # <<>> THEN v[1][1].title
    ELSE Bind(IF Len(v[2]) >= 2
              THEN extractTmdbIdFromName(v[2][Len(v[2]) - 1]) ELSE <<>>,
              LAMBDA folder :
      IF folder # <<>> THEN folder[1].title
      ELSE LET t1 == ReplaceFirst(fileName, ReExtensionNoSlash, <<>>)
               t2 == ReplaceAll(t1, ReQualityLegacy, <<>>)
               t3 == ReplaceAll(t2, ReCodecPA, <<>>)
               t4 == ReplaceAll(t3, ReYearPA, <<>>)
               t5 == ReplaceAll(t4, ReSeasonTokenLegacy, <<>>)
               t6 == ReplaceAll(t5, ReBracketedPA, <<>>)
           IN Bind(separatorsToSpaces(t6), LAMBDA cleaned :
                Bind(IF Len(cleaned) < 2 /\ Len(v[2]) >= 2
                     THEN separatorsToSpaces(v[2][Len(v[2]) - 1])
                     ELSE cleaned, LAMBDA title :
                  IF title # <<>> THEN title ELSE fileName))))

\* normalizeTitle: lower case, then only \w and the CJK characters stay
normalizeTitle(title) ==
  LET kept(c) == c \in WordChars \cup CJK
  IN FilterSeq(LowerCase(title), kept)

\* /\b(Season|S|第)[\s]*\d+(?:季)?/gi
ReSeasonWordLegacy ==
  << <<Wb, LitCI(<<"S","e","a","s","o","n">>), Rep(WS, 0, Many),
       Rep(Digit, 1, Many), Rep({ChJi}, 0, 1)>>,
     <<Wb, LitCI(<<"S">>), Rep(WS, 0, Many), Rep(Digit, 1, Many),
       Rep({ChJi}, 0, 1)>>,
     <<Wb, Lit(<<ChDi>>), Rep(WS, 0, Many), Rep(Digit, 1, Many),
       Rep({ChJi}, 0, 1)>> >>

UnknownSeriesLegacy == <<"U","n","k","n","o","w","n"," ","S","e","r","i","e","s">>

\* extractSeriesFromPath
extractSeriesFromPath(filePath) ==
  Bind(pathPartsOf(filePath), LAMBDA parts :
    IF Len(parts) >= 2
    THEN Bind(<<parts[Len(parts) - 1],
                extractTmdbIdFromName(parts[Len(parts) - 1])>>, LAMBDA v :
           IF v[2] # <<>> THEN v[2][1].title
           ELSE Trim(ReplaceAll(v[1], ReSeasonWordLegacy, <<>>)))
    ELSE IF Len(parts) >= 1 /\ parts[Len(parts)] # <<>> THEN parts[Len(parts)]
    ELSE UnknownSeriesLegacy)

\* /(?:Season|S|第)[\s]*\d+(?:季)?/i of AlistAPI._extractSeriesName
ReSeasonFolderAL ==
  << <<LitCI(<<"S","e","a","s","o","n">>), Rep(WS, 0, Many),
       Rep(Digit, 1, Many)>>,
     <<LitCI(<<"S">>), Rep(WS, 0, Many), Rep(Digit, 1, Many)>>,
     <<Lit(<<ChDi>>), Rep(WS, 0, Many), Rep(Digit, 1, Many)>> >>

\* AlistAPI._extractSeriesName(filePath, fileName)
extractSeriesNameAL(filePath, fileName) ==
  Bind(pathPartsOf(filePath), LAMBDA parts :
    IF Len(parts) >= 2 /\ ~Test(parts[Len(parts) - 1], ReSeasonFolderAL)
    THEN parts[Len(parts) - 1]
    ELSE IF Len(parts) >= 1 THEN parts[Len(parts)]
    ELSE StripExtension(fileName))

\* /(?:E|EP|第)[\s]*(\d+)(?:集)?/i
ReEpisodeAL ==
  << <<LitCI(<<"E">>), Rep(WS, 0, Many), Cap(Digit, 1, Many)>>,
     <<LitCI(<<"E","P">>), Rep(WS, 0, Many), Cap(Digit, 1, Many)>>,
     <<Lit(<<ChDi>>), Rep(WS, 0, Many), Cap(Digit, 1, Many)>> >>

\* the record getAllVideoFiles pushes for the video file `name` found in
\* currentPath under a configured directory of `type`; season is
\* parentInfo.season (Null outside a season folder); no title is forced.
\* The url is a function of the path and is left out.
videoFile(type, currentPath, name, season) ==
  Bind(Search(name, ReEpisodeAL), LAMBDA episodeMatch :
    [name |-> name,
     path |-> PathJoin(currentPath, name),
     season |-> season,
     episode |-> IF episodeMatch # <<>> THEN ParseInt(episodeMatch[1].caps[1])
                 ELSE Null,
     seriesName |-> extractSeriesNameAL(currentPath, name),
     directoryType |-> type,
     forcedTitle |-> <<>>])

PrefixMixed == <<"m","i","x","e","d","_">>
NameDefault == <<"d","e","f","a","u","l","t">>

\* groupFilesByContent, the key and the search name of one file
groupKeyOf(file) ==
  IF file.directoryType = "tv"
  THEN Bind(IF file.forcedTitle # <<>> THEN file.forcedTitle
            ELSE IF file.seriesName # <<>> THEN file.seriesName
            ELSE extractSeriesFromPath(file.path), LAMBDA seriesName :
         [groupKey |-> PrefixTv \o normalizeTitle(seriesName),
          searchName |-> seriesName])
  ELSE Bind(extractMovieTitle(file.name, file.path), LAMBDA cleanName :
         [groupKey |-> (IF file.directoryType = "movie" THEN PrefixMovie
                        ELSE PrefixMixed) \o normalizeTitle(cleanName),
          searchName |-> cleanName])

\* groupFilesByContent, the source a film adds to its group
sourceOf(file) ==
  Bind(pathPartsOf(file.path), LAMBDA pathParts :
    Bind(IF Len(pathParts) > 1 THEN pathParts[Len(pathParts) - 1]
         ELSE NameDefault, LAMBDA directoryPath :
      [name |-> directoryPath, path |-> directoryPath, files |-> <<file>>]))

\* groupFilesByContent, the first loop from file k on
RECURSIVE groupLoop(_, _, _)
groupLoop(videoFiles, k, groups) ==
  IF k > Len(videoFiles) THEN groups
  ELSE Bind(<<videoFiles[k], groupKeyOf(videoFiles[k])>>, LAMBDA v :
         Bind(IF MapIndex(groups, v[2].groupKey) = 0
              THEN MapSet(groups, v[2].groupKey,
                          [type |-> v[1].directoryType,
                           searchName |-> v[2].searchName,
                           fallbackName |-> v[1].name,
                           files |-> <<>>, sources |-> <<>>])
              ELSE groups, LAMBDA g :
           Bind(<<MapIndex(g, v[2].groupKey),
                  g[MapIndex(g, v[2].groupKey)].value>>, LAMBDA at :
             groupLoop(videoFiles, k + 1,
               [g EXCEPT ![at[1]].value =
                  [at[2] EXCEPT
                     !.files = Append(at[2].files, v[1]),
                     !.sources = IF v[1].directoryType = "movie"
                                 THEN Append(at[2].sources, sourceOf(v[1]))
                                 ELSE at[2].sources]]))))

\* groupFilesByContent, the sources of one group merged by name
RECURSIVE mergeSources(_, _, _)
mergeSources(sources, k, sourceMap) ==
  IF k > Len(sources) THEN [i \in 1..Len(sourceMap) |-> sourceMap[i].value]
  ELSE Bind(<<sources[k], MapIndex(sourceMap, sources[k].name)>>, LAMBDA v :
         mergeSources(sources, k + 1,
           IF v[2] = 0 THEN MapSet(sourceMap, v[1].name, v[1])
           ELSE [sourceMap EXCEPT ![v[2]].value.files = @ \o v[1].files]))

groupFilesByContent(videoFiles) ==
  Bind(groupLoop(videoFiles, 1, <<>>), LAMBDA groups :
    [i \in 1..Len(groups) |->
       Bind(groups[i].value, LAMBDA group :
         IF group.type = "movie" /\ Len(group.sources) > 0
         THEN [group EXCEPT !.sources = mergeSources(group.sources, 1, <<>>)]
         ELSE group)])

\* the keys of the sorts of extractSeasonInfo
LegacyEpisodeNumber(episode) == episode.episode_number
LegacySeasonOf(file) == IF Truthy(file.season) THEN file.season ELSE 1

\* extractSeasonInfo: the Map keeps the seasons in the order of their first
\* file; the numbers are distinct, so the sort puts them in numeric order
extractSeasonInfo(files) ==
  Bind({LegacySeasonOf(files[i]) : i \in DOMAIN files}, LAMBDA numbers :
    [k \in 1..Cardinality(numbers) |->
       Bind(CHOOSE n \in numbers : Cardinality({m \in numbers : m < n}) = k - 1,
            LAMBDA season :
         LET inSeason(file) == LegacySeasonOf(file) = season
         IN Bind(FilterSeq(files, inSeason), LAMBDA fs :
              [season_number |-> season,
               episodes |-> StableSort(
                  [i \in 1..Len(fs) |->
                     [episode_number |-> IF Truthy(fs[i].episode)
                                         THEN fs[i].episode ELSE 1,
                      name |-> fs[i].name, path |-> fs[i].path]],
                  LegacyEpisodeNumber)]))])

\* /\b(4K|2160p|1080p|720p|480p|HD|UHD)\b/i
ReQualitySource ==
  << <<Wb, LitCI(<<"4","K">>), Wb>>,
     <<Wb, LitCI(<<"2","1","6","0","p">>), Wb>>,
     <<Wb, LitCI(<<"1","0","8","0","p">>), Wb>>,
     <<Wb, LitCI(<<"7","2","0","p">>), Wb>>,
     <<Wb, LitCI(<<"4","8","0","p">>), Wb>>,
     <<Wb, LitCI(<<"H","D">>), Wb>>,
     <<Wb, LitCI(<<"U","H","D">>), Wb>> >>
\* /\.(mp4|mkv|avi|mov|wmv|rmvb|flv)$/i
ReFormatSource ==
  << <<Lit(<<".">>), LitCI(<<"m","p","4">>), Eos>>,
     <<Lit(<<".">>), LitCI(<<"m","k","v">>), Eos>>,
     <<Lit(<<".">>), LitCI(<<"a","v","i">>), Eos>>,
     <<Lit(<<".">>), LitCI(<<"m","o","v">>), Eos>>,
     <<Lit(<<".">>), LitCI(<<"w","m","v">>), Eos>>,
     <<Lit(<<".">>), LitCI(<<"r","m","v","b">>), Eos>>,
     <<Lit(<<".">>), LitCI(<<"f","l","v">>), Eos>> >>

\* extractSourceInfo, one entry
sourceEntry(source, sourceIndex, file, fileIndex) ==
  Bind(<<Search(file.name, ReQualitySource),
         Search(file.name, ReFormatSource)>>, LAMBDA m :
    [id |-> ToStr(sourceIndex) \o <<"_">> \o ToStr(fileIndex),
     source_name |-> source.name,
     source_path |-> source.path,
     file_name |-> file.name,
     path |-> file.path,
     quality |-> IF m[1] # <<>> THEN SubSeq(file.name, m[1][1].start,
                                             m[1][1].end - 1) ELSE <<>>,
     format |-> IF m[2] # <<>>
                THEN [i \in 1..(m[2][1].end - m[2][1].start - 1) |->
                        ToUpper(file.name[m[2][1].start + i])]
                ELSE <<>>])

\* extractSourceInfo from source k on
RECURSIVE extractSourceInfoFrom(_, _)
extractSourceInfoFrom(sources, k) ==
  IF k > Len(sources) THEN <<>>
  ELSE [j \in 1..Len(sources[k].files) |->
          sourceEntry(sources[k], k - 1, sources[k].files[j], j - 1)]
       \o extractSourceInfoFrom(sources, k + 1)

extractSourceInfo(sources) == extractSourceInfoFrom(sources, 1)

PrefixUnknown == <<"u","n","k","n","o","w","n","_">>

\* group.files.filter(f => f.episode).length
episodeCountOf(files) ==
  Cardinality({i \in DOMAIN files : Truthy(files[i].episode)})

\* generateMovieData, one turn of the loop over groupedFiles: what it leaves
\* in movieMap for `group` when getMediaDetails answered tmdbInfo (<<>> is
\* null) and `clock` unknown_ ids have been made
putGroup(movieMap, group, tmdbInfo, clock) ==
  IF tmdbInfo = <<>>
  THEN MapSet(movieMap, PrefixUnknown \o ToStr(clock),
         [id |-> PrefixUnknown \o ToStr(clock),
          title |-> group.searchName,
          media_type |-> "unknown",
          directory_type |-> group.type,
          files |-> group.files,
          file_count |-> Len(group.files),
          sources |-> extractSourceInfo(group.sources),
          source_count |-> Len(group.sources)])
  ELSE Bind(<<tmdbInfo[1], ToStr(tmdbInfo[1].id)>>, LAMBDA v :
    IF MapIndex(movieMap, v[2]) # 0
    THEN Bind(movieMap[MapIndex(movieMap, v[2])].value, LAMBDA existingMovie :
      Bind(Spread(existingMovie,
                  [files |-> existingMovie.files \o group.files,
                   file_count |-> Len(existingMovie.files \o group.files)]),
           LAMBDA withFiles :
        Bind(IF v[1].media_type = "movie"
             THEN Bind((IF "all_sources" \in DOMAIN withFiles
                        THEN withFiles.all_sources
                        ELSE IF "sources" \in DOMAIN withFiles
                        THEN withFiles.sources ELSE <<>>) \o group.sources,
                       LAMBDA all_sources :
                    Spread(withFiles,
                           [all_sources |-> all_sources,
                            sources |-> extractSourceInfo(all_sources),
                            source_count |-> Len(all_sources)]))
             ELSE withFiles, LAMBDA withSources :
          MapSet(movieMap, v[2],
            IF v[1].media_type = "tv"
            THEN Spread(withSources,
                   [seasons |-> extractSeasonInfo(withSources.files),
                    episode_count |-> episodeCountOf(withSources.files)])
            ELSE withSources))))
    ELSE MapSet(movieMap, v[2],
           Spread(Spread(v[1],
                    [id |-> v[2],
                     original_tmdb_id |-> v[1].id,
                     files |-> group.files,
                     file_count |-> Len(group.files),
                     directory_type |-> group.type]),
                  IF v[1].media_type = "tv"
                  THEN [seasons |-> extractSeasonInfo(group.files),
                        episode_count |-> episodeCountOf(group.files)]
                  ELSE IF v[1].media_type = "movie"
                  THEN [all_sources |-> group.sources,
                        sources |-> extractSourceInfo(group.sources),
                        source_count |-> Len(group.sources)]
                  ELSE <<>>)))

\* String(m.id) of the entries of a list
idsOf(movies) == {movies[i].id : i \in DOMAIN movies}

\* generateMovieData, the incremental write: the content of movies.json
\* after the run, given the file as it was (<<>> while missing).  The date
\* and the config of the file are left out.
mergedJson(prevJson, movies) ==
  IF prevJson = <<>>
  THEN [movies |-> movies, total |-> Len(movies)]
  ELSE Bind(<<prevJson[1].movies, idsOf(prevJson[1].movies)>>, LAMBDA prev :
         LET isNew(m) == m.id \notin prev[2]
         IN Bind(FilterSeq(movies, isNew), LAMBDA newMoviesOnly :
              Spread(prevJson[1],
                     [movies |-> prev[1] \o newMoviesOnly,
                      total |-> Len(prev[1]) + Len(newMoviesOnly)])))

\* how many runs of generateMovieData are followed, and how many files the
\* listing service holds at a run
MaxRuns == 2
MaxLegacyFiles == 2

DirMovies == <<"/","m","o","v","i","e","s">>
DirBackup == <<"/","b","a","c","k","u","p">>
DirDarkSeason1 ==
  <<"/","t","v","/","D","a","r","k","/","S","e","a","s","o","n"," ","1">>
NameShowMkv == <<"S","h","o","w",".","m","k","v">>
NameHeatMkv == <<"H","e","a","t",".","m","k","v">>
NameE01Mkv == <<"E","0","1",".","m","k","v">>
NameE02Mkv == <<"E","0","2",".","m","k","v">>

\* the files the configured directories may hold, in the order of the scan
\* (the film directories come first): the film Show in two directories, a
\* film no catalogue knows, and two episodes of the series Dark.  The search
\* name of each is one word, and its file name adds no candidate to it.
LegacyFilesPool ==
  << videoFile("movie", DirMovies, NameShowMkv, Null),
     videoFile("movie", DirMovies, NameHeatMkv, Null),
     videoFile("movie", DirBackup, NameShowMkv, Null),
     videoFile("tv", DirDarkSeason1, NameE01Mkv, 1),
     videoFile("tv", DirDarkSeason1, NameE02Mkv, 1) >>

\* what getAllVideoFiles may return at a run
LegacyInputs ==
  { LET has(file) == \E i \in S : LegacyFilesPool[i] = file
    IN FilterSeq(LegacyFilesPool, has) :
      S \in {T \in SUBSET DOMAIN LegacyFilesPool :
               Cardinality(T) <= MaxLegacyFiles} }

InitLegacy ==
  /\ lPc = "idle"
  /\ lCatalog \in Catalogues
  /\ lVideoFiles = <<>>
  /\ lGroupedFiles = <<>>
  /\ lIdx = 0
  /\ lMovieMap = <<>>
  /\ lClock = 0
  /\ lJson = <<>>
  /\ lBefore = <<>>
  /\ lRuns = <<>>
  /\ IdleParse /\ IdleDetect /\ IdleGen /\ IdleWalk /\ IdleConf
  /\ IdleBesidesLegacy

\* generateMovieData up to the loop: the scan and the grouping; the run
\* returns at once when the scan finds no video file
GenerateMovieData ==
  /\ lPc = "idle"
  /\ Len(lRuns) < MaxRuns
  /\ \E videoFiles \in LegacyInputs :
       /\ lVideoFiles' = videoFiles
       /\ lRuns' = Append(lRuns, videoFiles)
       /\ \E groupedFiles \in {IF Len(videoFiles) = 0 THEN <<>>
                               ELSE groupFilesByContent(videoFiles)} :
            lGroupedFiles' = groupedFiles
       /\ lPc' = IF Len(videoFiles) = 0 THEN "idle" ELSE "groups"
  /\ lIdx' = 1
  /\ lMovieMap' = <<>>
  /\ lBefore' = lJson
  /\ UNCHANGED <<lCatalog, lClock, lJson>>
  /\ UNCHANGED <<parseVars, detectVars, genVars, walkVars, confVars,
                 besidesLegacy>>

\* one turn of the loop over groupedFiles.  getMediaDetails is asked with
\* group.searchName and group.fallbackName; for the files of LegacyFilesPool
\* the fallback name yields the search name again or a bare episode marker,
\* so the candidates are those of the search name
GroupDetails ==
  /\ lPc = "groups"
  /\ lIdx <= Len(lGroupedFiles)
  /\ \E group \in {lGroupedFiles[lIdx]} :
     \E tmdbInfo \in {getMediaDetails(lCatalog, group.searchName,
                                      group.type)} :
       /\ lMovieMap' = putGroup(lMovieMap, group, tmdbInfo, lClock)
       /\ lClock' = IF tmdbInfo = <<>> THEN lClock + 1 ELSE lClock
  /\ lIdx' = lIdx + 1
  /\ UNCHANGED <<lPc, lCatalog, lVideoFiles, lGroupedFiles, lJson, lBefore,
                 lRuns>>
  /\ UNCHANGED <<parseVars, detectVars, genVars, walkVars, confVars,
                 besidesLegacy>>

\* after the loop: the list, the sort and the write of movies.json
WriteMovies ==
  /\ lPc = "groups"
  /\ lIdx > Len(lGroupedFiles)
  /\ \E movies \in {[i \in 1..Len(lMovieMap) |-> lMovieMap[i].value]} :
       lJson' = IF Len(movies) = 0 THEN lJson
                ELSE <<mergedJson(lJson, sortByTitle(movies))>>
  /\ lPc' = "idle"
  /\ UNCHANGED <<lCatalog, lVideoFiles, lGroupedFiles, lIdx, lMovieMap,
                 lClock, lBefore, lRuns>>
  /\ UNCHANGED <<parseVars, detectVars, genVars, walkVars, confVars,
                 besidesLegacy>>

NextLegacy == GenerateMovieData \/ GroupDetails \/ WriteMovies

SpecLegacy == InitLegacy /\ [][NextLegacy]_vars

\* what getMediaDetails answers for group i of the run
ResolvedAs(i) ==
  getMediaDetails(lCatalog, lGroupedFiles[i].searchName,
                  lGroupedFiles[i].type)

\* the entries of movieMap that hold every file of group i
EntriesOfGroup(i) ==
  {k \in DOMAIN lMovieMap :
     \A f \in DOMAIN lGroupedFiles[i].files :
       \E g \in DOMAIN lMovieMap[k].value.files :
         lMovieMap[k].value.files[g] = lGroupedFiles[i].files[f]}

\* C28: in generateMovieData two groups of files are in one entry of
\* movieMap only if getMediaDetails resolved both to the same id of the same
\* media type; a film and a series with the same numeric id stay two entries
C28_MergedOnlySameTitle ==
  lPc = "groups" =>
    \A i \in 1..(lIdx - 1) : \A j \in 1..(lIdx - 1) :
      (i < j /\ EntriesOfGroup(i) \cap EntriesOfGroup(j) # {}) =>
        /\ ResolvedAs(i) # <<>>
        /\ ResolvedAs(j) # <<>>
        /\ ResolvedAs(i)[1].media_type = ResolvedAs(j)[1].media_type
        /\ ResolvedAs(i)[1].id = ResolvedAs(j)[1].id

\* the movie list of movies.json, empty while the file is missing
StoredMovies(json) == IF json = <<>> THEN <<>> ELSE json[1].movies

\* C29: after a run of generateMovieData, movies.json keeps the entries it
\* had, unchanged and in place, the appended entries have ids that were not
\* stored, no two entries have the same id, total is the number of entries,
\* and a run on the input of the run before it leaves the list as it was
C29_IncrementalWrite ==
  (lPc = "idle" /\ lJson # <<>>) =>
    Bind(<<StoredMovies(lBefore), StoredMovies(lJson)>>, LAMBDA v :
      /\ Len(v[2]) >= Len(v[1])
      /\ SubSeq(v[2], 1, Len(v[1])) = v[1]
      /\ \A k \in (Len(v[1]) + 1)..Len(v[2]) : v[2][k].id \notin idsOf(v[1])
      /\ \A k \in DOMAIN v[2] : \A n \in DOMAIN v[2] :
           v[2][k].id = v[2][n].id => k = n
      /\ lJson[1].total = Len(v[2])
      /\ (Len(lRuns) >= 2 /\ lRuns[Len(lRuns)] = lRuns[Len(lRuns) - 1])
           => v[2] = v[1])

(***************************************************************************)
(* The player page: setDefaultSource, the click on an item, playNext       *)
(***************************************************************************)
\* how many seasons a record of the page has, how many episodes a season,
\* and how many clicks on an item are followed
MaxPlayerSeasons == 2
MaxPlayerEpisodes == 3
MaxClicks == 1

PlayerSeasonNumbers == {1, 2, 3}

\* the url of a video, told apart by two numbers
UrlOf(a, b) == <<"/">> \o ToStr(a) \o <<"/">> \o ToStr(b)

\* an episode as the generators store it: episode_number, name, url, path
PlayerEpisode(season, number) ==
  [episode_number |-> number, name |-> <<"E">> \o ToStr(number),
   url |-> UrlOf(season, number), path |-> UrlOf(season, number)]

PlayerSeason(season, count) ==
  [season_number |-> season,
   episodes |-> [k \in 1..count |-> PlayerEpisode(season, k)]]

\* the seasons lists of a record: distinct season numbers in any order, with
\* gaps, each season with none to MaxPlayerEpisodes episodes
PlayerSeasonsLists ==
  UNION { { [k \in 1..n |-> PlayerSeason(numbers[k], counts[k])] :
              numbers \in {q \in [1..n -> PlayerSeasonNumbers] :
                             \A a \in 1..n : \A b \in 1..n :
                               q[a] = q[b] => a = b},
              counts \in [1..n -> 0..MaxPlayerEpisodes] } :
          n \in 1..MaxPlayerSeasons }

PlayerSources ==
  << [name |-> <<"a">>, url |-> UrlOf(0, 1)],
     [name |-> <<"b">>, url |-> UrlOf(0, 2)] >>

\* the records the page may be opened on: series, a film with sources, a
\* record with files only, a record with nothing to play, a series without
\* seasons, and an aggregated record whose main version is a series
PlayerMovies ==
  { [title |-> NameShow, media_type |-> "tv", seasons |-> seasons] :
      seasons \in PlayerSeasonsLists }
  \cup { [title |-> NameShow, media_type |-> "movie",
          sources |-> PlayerSources],
         [title |-> NameShow, media_type |-> "unknown",
          files |-> PlayerSources],
         [title |-> NameShow, media_type |-> "movie"],
         [title |-> NameShow, media_type |-> "tv", seasons |-> <<>>,
          sources |-> PlayerSources],
         [title |-> NameShow, media_type |-> "tv", is_aggregated |-> TRUE,
          versions |-> << [is_main |-> FALSE, seasons |-> <<>>],
                          [is_main |-> TRUE,
                           seasons |-> <<PlayerSeason(1, 2)>>] >>] }

\* o.field is there and truthy, for a field that holds a list
HasList(o, field) == field \in DOMAIN o /\ Len(o[field]) > 0

\* n || fallback for a number
OrNumber(n, fallback) == IF Truthy(n) THEN n ELSE fallback

\* createEpisodesList: the .episode-item elements, in document order
RECURSIVE episodeItemsFrom(_, _)
episodeItemsFrom(seasons, seasonIndex) ==
  IF seasonIndex > Len(seasons) THEN <<>>
  ELSE Bind(seasons[seasonIndex], LAMBDA season :
         [episodeIndex \in 1..Len(season.episodes) |->
            Bind(season.episodes[episodeIndex], LAMBDA episode :
              [class |-> "episode-item",
               season |-> ToStr(OrNumber(season.season_number, seasonIndex)),
               episode |-> ToStr(OrNumber(episode.episode_number,
                                          episodeIndex)),
               name |-> episode.name,
               url |-> episode.url])])
       \o episodeItemsFrom(seasons, seasonIndex + 1)

\* createSourcesList and createFilesList: one element for each entry
listItems(class, list) ==
  [index \in 1..Len(list) |-> [class |-> class, url |-> list[index].url]]

\* createEpisodesAndSourcesList: the elements a click can land on
createEpisodesAndSourcesList(movie) ==
  IF movie.media_type = "tv" /\ HasList(movie, "seasons")
  THEN episodeItemsFrom(movie.seasons, 1)
  ELSE IF movie.media_type = "movie" /\ HasList(movie, "sources")
  THEN listItems("source-item", movie.sources)
  ELSE IF HasList(movie, "files") THEN listItems("file-item", movie.files)
  ELSE <<>>

\* highlightCurrentEpisode: the element that becomes active, 0 for none;
\* the two arguments are the strings the selector is built from
highlightCurrentEpisode(items, season, episode) ==
  Bind({i \in DOMAIN items :
          /\ items[i].class = "episode-item"
          /\ items[i].season = season
          /\ items[i].episode = episode}, LAMBDA hit :
    IF hit = {} THEN 0 ELSE MinSet(hit))

\* highlightCurrentSource and highlightCurrentFile: element `index` (from
\* 0) of the elements of the class
highlightIndexed(items, class, index) ==
  IF index < Len(items) /\ items[index + 1].class = class THEN index + 1
  ELSE 0

NameUndefined == <<"u","n","d","e","f","i","n","e","d">>

\* `${o.field}` for a number-valued field: "undefined" when it is missing
NumberText(o, field) ==
  IF field \in DOMAIN o THEN ToStr(o[field]) ELSE NameUndefined

\* loadVideo(url): what has been loaded, in order
loadVideo(played, url) == IF url = <<>> THEN played ELSE Append(played, url)

\* versions.find(v => v.is_main) || versions[0]; <<>> is undefined
mainVersionOf(versions) ==
  Bind({i \in DOMAIN versions : versions[i].is_main}, LAMBDA main :
    IF main # {} THEN <<versions[MinSet(main)]>>
    ELSE IF Len(versions) > 0 THEN <<versions[1]>> ELSE <<>>)

\* setDefaultSource: the globals, the active element and the loaded videos
\* it leaves
setDefaultSource(movie, items) ==
  Bind(IF "is_aggregated" \in DOMAIN movie /\ movie.is_aggregated
          /\ "versions" \in DOMAIN movie
          /\ mainVersionOf(movie.versions) # <<>>
       THEN Spread(Spread(movie, mainVersionOf(movie.versions)[1]),
                   [is_aggregated |-> FALSE])
       ELSE movie, LAMBDA merged :
    LET none == [movie |-> merged, episode |-> <<>>, source |-> <<>>,
                 active |-> 0, played |-> <<>>]
    IN IF HasList(merged, "seasons")
       THEN Bind(merged.seasons[1], LAMBDA firstSeason :
              IF Len(firstSeason.episodes) > 0
              THEN Bind(<<firstSeason.episodes[1],
                          OrNumber(firstSeason.season_number, 1)>>, LAMBDA v :
                     [none EXCEPT
                        !.episode = <<[season |-> v[2],
                                       episode |-> v[1].episode_number,
                                       name |-> v[1].name,
                                       url |-> v[1].url]>>,
                        !.active = highlightCurrentEpisode(items,
                                     ToStr(v[2]),
                                     ToStr(v[1].episode_number)),
                        !.played = loadVideo(<<>>, v[1].url)])
              ELSE none)
       ELSE IF HasList(merged, "sources")
       THEN [none EXCEPT
               !.source = <<merged.sources[1]>>,
               !.active = highlightIndexed(items, "source-item", 0),
               !.played = loadVideo(<<>>, merged.sources[1].url)]
       ELSE IF HasList(merged, "files")
       THEN [none EXCEPT
               !.active = highlightIndexed(items, "file-item", 0),
               !.played = loadVideo(<<>>, merged.files[1].url)]
       ELSE none)

\* season.episodes.findIndex(ep => ep.episode_number === number), from 1,
\* 0 when there is none; number is <<>> for undefined
findIndexOfEpisode(episodes, number) ==
  Bind({i \in DOMAIN episodes : <<episodes[i].episode_number>> = number},
       LAMBDA hit : IF hit = {} THEN 0 ELSE MinSet(hit))

\* findNextEpisode(currentSeason, currentEpisode) from season k of the list
\* on; <<>> is null, currentNumber is <<>> for undefined
RECURSIVE findNextEpisodeFrom(_, _, _, _)
findNextEpisodeFrom(seasons, k, currentSeason, currentNumber) ==
  IF k > Len(seasons) THEN <<>>
  ELSE Bind(<<seasons[k],
              findIndexOfEpisode(seasons[k].episodes, currentNumber)>>,
            LAMBDA v :
         IF v[1].season_number = currentSeason
         THEN IF v[2] # 0 /\ v[2] < Len(v[1].episodes)
              THEN <<Spread([season |-> v[1].season_number],
                            v[1].episodes[v[2] + 1])>>
              ELSE findNextEpisodeFrom(seasons, k + 1, currentSeason,
                                       currentNumber)
         ELSE IF v[1].season_number = currentSeason + 1
                 /\ Len(v[1].episodes) > 0
         THEN <<Spread([season |-> v[1].season_number], v[1].episodes[1])>>
         ELSE findNextEpisodeFrom(seasons, k + 1, currentSeason,
                                  currentNumber))

findNextEpisode(movie, currentSeason, currentNumber) ==
  findNextEpisodeFrom(movie.seasons, 1, currentSeason, currentNumber)

InitPlayer ==
  /\ yPc = "loaded"
  /\ currentMovie \in PlayerMovies
  /\ currentEpisode = <<>>
  /\ currentSource = <<>>
  /\ yItems = <<>>
  /\ yActive = 0
  /\ yPlayed = <<>>
  /\ yLast = "load"
  /\ yBefore = <<>>
  /\ yClicks = 0
  /\ IdleParse /\ IdleDetect /\ IdleGen /\ IdleWalk /\ IdleConf
  /\ IdleBesidesPlayer

\* initializeMoviePlayer: the lists of the page, then setDefaultSource
InitializeMoviePlayer ==
  /\ yPc = "loaded"
  /\ \E items \in {createEpisodesAndSourcesList(currentMovie)} :
     \E set \in {setDefaultSource(currentMovie, items)} :
       /\ yItems' = items
       /\ currentMovie' = set.movie
       /\ currentEpisode' = set.episode
       /\ currentSource' = set.source
       /\ yActive' = set.active
       /\ yPlayed' = set.played
  /\ yPc' = "ready"
  /\ yLast' = "default"
  /\ UNCHANGED <<yBefore, yClicks>>
  /\ UNCHANGED <<parseVars, detectVars, genVars, walkVars, confVars,
                 besidesPlayer>>

\* the click handler of bindSourceEvents on element i of the lists
ClickItem(i) ==
  /\ yPc = "ready"
  /\ yClicks < MaxClicks
  /\ i # yActive
  /\ \E target \in {yItems[i]} :
       /\ IF target.class = "episode-item"
          THEN /\ currentEpisode' = <<[season |-> ParseInt(target.season),
                                       episode |-> ParseInt(target.episode),
                                       name |-> target.name,
                                       url |-> target.url]>>
               /\ yActive' = highlightCurrentEpisode(yItems,
                               ToStr(ParseInt(target.season)),
                               ToStr(ParseInt(target.episode)))
               /\ UNCHANGED currentSource
          ELSE IF target.class = "source-item"
          THEN /\ currentSource' = <<currentMovie.sources[i]>>
               /\ yActive' = highlightIndexed(yItems, "source-item", i - 1)
               /\ UNCHANGED currentEpisode
          ELSE /\ yActive' = highlightIndexed(yItems, "file-item", i - 1)
               /\ UNCHANGED <<currentEpisode, currentSource>>
       /\ yPlayed' = loadVideo(yPlayed, target.url)
  /\ yBefore' = currentEpisode
  /\ yLast' = "click"
  /\ yClicks' = yClicks + 1
  /\ UNCHANGED <<yPc, currentMovie, yItems>>
  /\ UNCHANGED <<parseVars, detectVars, genVars, walkVars, confVars,
                 besidesPlayer>>

\* playNext, on the key n or when a video ends
PlayNext ==
  /\ yPc = "ready"
  /\ \E nextEpisode \in
        {IF currentMovie.media_type = "tv" /\ currentEpisode # <<>>
         THEN findNextEpisode(currentMovie, currentEpisode[1].season,
                              Field(currentEpisode[1], "episode", 1))
         ELSE <<>>} :
       IF nextEpisode # <<>>
       THEN /\ currentEpisode' = nextEpisode
            /\ yPlayed' = loadVideo(yPlayed, nextEpisode[1].url)
            /\ yActive' = highlightCurrentEpisode(yItems,
                            NumberText(nextEpisode[1], "season"),
                            NumberText(nextEpisode[1], "episode"))
       ELSE UNCHANGED <<currentEpisode, yPlayed, yActive>>
  /\ yBefore' = currentEpisode
  /\ yLast' = "next"
  /\ UNCHANGED <<yPc, currentMovie, currentSource, yItems, yClicks>>
  /\ UNCHANGED <<parseVars, detectVars, genVars, walkVars, confVars,
                 besidesPlayer>>

NextPlayer ==
  \/ InitializeMoviePlayer
  \/ \E i \in 1..(MaxPlayerSeasons * MaxPlayerEpisodes) :
       i \in DOMAIN yItems /\ ClickItem(i)
  \/ PlayNext

SpecPlayer == InitPlayer /\ [][NextPlayer]_vars

\* the episodes of a record in playing order: the seasons by their number,
\* seasons without episodes left out, the episodes of a season as listed
PlaylistOf(movie) ==
  LET Number(season) == season.season_number
      urls(seasons, k) == [e \in 1..Len(seasons[k].episodes) |->
                             seasons[k].episodes[e].url]
      RECURSIVE from(_, _)
      from(seasons, k) == IF k > Len(seasons) THEN <<>>
                          ELSE urls(seasons, k) \o from(seasons, k + 1)
  IN from(StableSort(movie.seasons, Number), 1)

\* where a url stands in a list, 0 when it does not
PositionIn(list, url) ==
  Bind({i \in DOMAIN list : list[i] = url}, LAMBDA hit :
    IF hit = {} THEN 0 ELSE MinSet(hit))

\* C30: in the player, playNext moves from the current episode to the one
\* that follows it in playing order (the next of its season, else the first
\* of the next season that has episodes) and changes nothing at the last
\* episode; playNext repeated from the first episode until it changes
\* nothing has loaded every episode once, in order
C30_PlayNextFollows ==
  (yPc = "ready" /\ yLast = "next" /\ currentMovie.media_type = "tv"
     /\ yBefore # <<>>) =>
    Bind(<<PlaylistOf(currentMovie),
           PositionIn(PlaylistOf(currentMovie), yBefore[1].url)>>, LAMBDA v :
      /\ v[2] # 0 /\ v[2] < Len(v[1]) => currentEpisode[1].url = v[1][v[2] + 1]
      /\ v[2] = Len(v[1]) => currentEpisode = yBefore
      /\ (yClicks = 0 /\ currentEpisode = yBefore /\ yPlayed # <<>>
            /\ v[1] # <<>> /\ yPlayed[1] = v[1][1])
           => yPlayed = v[1])

====
